---------------------------- MODULE Spec2Model ----------------------------
(***************************************************************************)
(* Reconciliation and scoring core of the FMCG analyser:                   *)
(*   validator.py     field normalisers                                    *)
(*   data_loader.py   load_clean_and_merge_data, update_database           *)
(*   scoring.py       get_customer_scores (the ledger query)               *)
(*                                                                         *)
(* A cell of a DataFrame is a record [kind, n, s]:                         *)
(*   kind "null"   NaN / None / NaT                                        *)
(*   kind "int"    the integer n                                           *)
(*   kind "float"  the float n/2 (n counts halves, so 15 is 7.5)           *)
(*   kind "inf"    the float infinity, n is its sign                       *)
(*   kind "str"    the string whose characters are the sequence s          *)
(*   kind "date"   the Timestamp of day number n                           *)
(* Strings are sequences of one-character strings, so that str(), int(),   *)
(* float() and strip() are computed and not assumed.                       *)
(***************************************************************************)
EXTENDS Integers, Sequences, FiniteSets, TLC

VARIABLES
    creditFile,   \* data/raw/Credit_Balances.xlsx: [status, columns, rows]
    salesFiles,   \* data/raw/<SALES_FILES[i]>: sequence of [status, rows]
    marginFile,   \* data/raw/tiles_margin.xlsx: [status, rows]
    db,           \* table sales_data of sales.db: [exists, rows, missing]
    run,          \* tables of the last load_clean_and_merge_data call
    ret,          \* what the last update_database call did: "True", "False", "raised"
    response,     \* what the dashboard route answered for that call
    scores,       \* last get_customer_scores call: [ledger, out, rows, frame]
    nruns,        \* update_database calls so far
    field,        \* the argument handed to a normaliser or a scoring helper
    cleaned,      \* [fn, out]: the helper applied last and its outcome
    view          \* last analysis call of scoring.py: [fn, out, rows]

vars == <<creditFile, salesFiles, marginFile, db, run, ret, response, scores,
          nruns, field, cleaned, view>>

(***************************************************************************)
(* Bounds of the model                                                     *)
(***************************************************************************)
MaxCreditRows == 2
MaxSalesRows == 2
MaxRuns == 1
NumRange == 9          \* numerals -NumRange..NumRange are written and parsed
MaxPopulation == 6     \* customers in one scored population
MaxCustomers == 6      \* customers of a shop whose ledger is scored
MaxMarginRows == 2     \* records in a margin extract

(***************************************************************************)
(* Cells                                                                   *)
(***************************************************************************)
Null == [kind |-> "null", n |-> 0, s |-> <<>>]
IntV(i) == [kind |-> "int", n |-> i, s |-> <<>>]
FltV(h) == [kind |-> "float", n |-> h, s |-> <<>>]
InfV(sign) == [kind |-> "inf", n |-> sign, s |-> <<>>]
StrV(t) == [kind |-> "str", n |-> 0, s |-> t]
DateV(d) == [kind |-> "date", n |-> d, s |-> <<>>]

\* an exception leaving a function, named by its Python class
Raise(exc) == [kind |-> "raise", n |-> 0, s |-> <<exc>>]
IsRaise(v) == v.kind = "raise"

\* pd.isna(value) or value is None
IsNa(v) == v.kind = "null"

Abs(i) == IF i < 0 THEN -i ELSE i
Sign(i) == IF i < 0 THEN -1 ELSE IF i > 0 THEN 1 ELSE 0

(***************************************************************************)
(* Python's str(), int() and float() on the cells                          *)
(***************************************************************************)
Digit == <<"0", "1", "2", "3", "4", "5", "6", "7", "8", "9">>

RECURSIVE NatToStr(_)
NatToStr(i) ==
    IF i < 10 THEN <<Digit[i + 1]>>
    ELSE NatToStr(i \div 10) \o <<Digit[(i % 10) + 1]>>

\* str(i) of an int
IntToStr(i) == IF i < 0 THEN <<"-">> \o NatToStr(-i) ELSE NatToStr(i)

\* str(x) of a float given in halves: 14 is "7.0", 15 is "7.5", -1 is "-0.5"
FloatToStr(h) ==
    (IF h < 0 THEN <<"-">> ELSE <<>>)
        \o NatToStr(Abs(h) \div 2)
        \o <<".">>
        \o (IF Abs(h) % 2 = 0 THEN <<"0">> ELSE <<"5">>)

IsSpace(c) == c \in {" ", "\t", "\n"}

\* str.strip()
RECURSIVE LStrip(_)
LStrip(t) == IF t # <<>> /\ IsSpace(Head(t)) THEN LStrip(Tail(t)) ELSE t
RECURSIVE RStrip(_)
RStrip(t) ==
    IF t # <<>> /\ IsSpace(t[Len(t)]) THEN RStrip(SubSeq(t, 1, Len(t) - 1)) ELSE t
Strip(t) == RStrip(LStrip(t))

\* int(text): the int the numeral denotes, ValueError otherwise
ParseInt(t) ==
    LET u == Strip(t)
    IN  IF \E i \in -NumRange..NumRange : IntToStr(i) = u
        THEN IntV(CHOOSE i \in -NumRange..NumRange : IntToStr(i) = u)
        ELSE Raise("ValueError")

\* float(text): a float in halves, an infinity, NaN, or ValueError
ParseFloat(t) ==
    LET u == Strip(t)
        H == (-2 * NumRange)..(2 * NumRange)
    IN  IF \E i \in -NumRange..NumRange : IntToStr(i) = u
        THEN FltV(2 * (CHOOSE i \in -NumRange..NumRange : IntToStr(i) = u))
        ELSE IF \E h \in H : FloatToStr(h) = u
        THEN FltV(CHOOSE h \in H : FloatToStr(h) = u)
        ELSE IF u \in {<<"i", "n", "f">>, <<"+", "i", "n", "f">>} THEN InfV(1)
        ELSE IF u = <<"-", "i", "n", "f">> THEN InfV(-1)
        ELSE IF u = <<"n", "a", "n">> THEN Null
        ELSE Raise("ValueError")

\* float(value)
ToFloat(v) ==
    CASE v.kind = "int" -> FltV(2 * v.n)
      [] v.kind = "float" -> v
      [] v.kind = "inf" -> v
      [] v.kind = "str" -> ParseFloat(v.s)
      [] OTHER -> Raise("TypeError")

\* round(x) of a float in halves: half to even; NaN and the infinities raise
RoundHalfEven(h) ==
    IF h % 2 = 0 THEN h \div 2
    ELSE LET lo == (h - 1) \div 2 IN IF lo % 2 = 0 THEN lo ELSE lo + 1

RoundFloat(v) ==
    CASE v.kind = "float" -> IntV(RoundHalfEven(v.n))
      [] v.kind = "inf" -> Raise("OverflowError")
      [] v.kind = "null" -> Raise("ValueError")
      [] OTHER -> v

\* int(x) of a float in halves: truncation toward zero
TruncHalves(h) == Sign(h) * (Abs(h) \div 2)

(***************************************************************************)
(* validator.py                                                            *)
(***************************************************************************)
\* the text of a day of January 2025
DateToStr(d) == <<"2", "0", "2", "5", "-", "0", "1", "-", "0">> \o NatToStr(d)

\* str(value)
PyStr(v) ==
    CASE v.kind = "int" -> IntToStr(v.n)
      [] v.kind = "float" -> FloatToStr(v.n)
      [] v.kind = "inf" -> IF v.n < 0 THEN <<"-", "i", "n", "f">> ELSE <<"i", "n", "f">>
      [] v.kind = "null" -> <<"n", "a", "n">>
      [] v.kind = "date" ->
            DateToStr(v.n) \o <<" ", "0", "0", ":", "0", "0", ":", "0", "0">>
      [] OTHER -> v.s

clean_and_trim_string(value) ==
    IF IsNa(value) THEN Null ELSE StrV(Strip(PyStr(value)))

\* the except clause catches ValueError and TypeError only
clean_and_round_integer(value) ==
    IF IsNa(value) THEN Null
    ELSE LET f == ToFloat(value)
             r == IF IsRaise(f) THEN f ELSE RoundFloat(f)
         IN  IF IsRaise(r) /\ r.s[1] \in {"ValueError", "TypeError"} THEN Null ELSE r

\* pd.to_datetime(value, errors='coerce'): a number counts nanoseconds from the
\* epoch, a string is read as a date
EpochDay == 0
ToDatetime(v) ==
    CASE v.kind \in {"int", "float"} -> DateV(EpochDay)
      [] v.kind = "str" ->
            IF \E d \in 1..NumRange : DateToStr(d) = Strip(v.s)
            THEN DateV(CHOOSE d \in 1..NumRange : DateToStr(d) = Strip(v.s))
            ELSE Null
      [] OTHER -> Null

parse_date(value) ==
    IF IsNa(value) THEN Null
    ELSE IF value.kind = "date" THEN value
    ELSE ToDatetime(value)

(***************************************************************************)
(* DataFrame helpers (pandas)                                              *)
(***************************************************************************)
RECURSIVE Flatten(_)
Flatten(ss) == IF ss = <<>> THEN <<>> ELSE Head(ss) \o Flatten(Tail(ss))

RECURSIVE SumSeq(_)
SumSeq(ns) == IF ns = <<>> THEN 0 ELSE Head(ns) + SumSeq(Tail(ns))

\* the rows at the positions in keep, in order
PickRows(df, keep) ==
    Flatten([i \in 1..Len(df) |-> IF i \in keep THEN <<df[i]>> ELSE <<>>])

\* the value pandas' hashing takes a cell for: NaN equals NaN, 7 equals 7.0,
\* a string equals only the same string
HashKey(c) == IF c.kind = "int" THEN FltV(2 * c.n) ELSE c

\* DataFrame.drop_duplicates(subset, keep='last'); keys[i] is the subset of row i
DropDuplicatesLast(df, keys) ==
    PickRows(df, {i \in 1..Len(df) : ~\E j \in (i + 1)..Len(df) : keys[j] = keys[i]})

\* DataFrame.drop_duplicates(subset, keep='first')
DropDuplicatesFirst(df, keys) ==
    PickRows(df, {i \in 1..Len(df) : ~\E j \in 1..(i - 1) : keys[j] = keys[i]})

\* pd.merge(left, right, how='left') as the pairs <<left row, right row>> of
\* the result: every left row, once per matching right row in right order, or
\* once with right row 0 (the right columns missing)
LeftMerge(lkeys, rkeys) ==
    Flatten([i \in 1..Len(lkeys) |->
        LET m == {j \in 1..Len(rkeys) : rkeys[j] = lkeys[i]}
        IN  IF m = {} THEN <<<<i, 0>>>>
            ELSE PickRows([j \in 1..Len(rkeys) |-> <<i, j>>], m)])

\* pd.merge(left, right, how='inner')
InnerMerge(lkeys, rkeys) ==
    Flatten([i \in 1..Len(lkeys) |->
        PickRows([j \in 1..Len(rkeys) |-> <<i, j>>],
                 {j \in 1..Len(rkeys) : rkeys[j] = lkeys[i]})])

\* the orders DataFrame.sort_values may leave the rows in: every arrangement
\* with no row after one it must precede (the order of ties is not fixed);
\* keys[i] is [na, n], the missing values going last
\* a column or frame spelled out value by value
RECURSIVE Prefix(_, _)
Prefix(f, n) == IF n = 0 THEN <<>> ELSE Append(Prefix(f, n - 1), f[n])
AsList(f) == Prefix(f, Len(f))

RECURSIVE Orders(_)
Orders(S) ==
    IF S = {} THEN {<<>>}
    ELSE UNION {{<<x>> \o o : o \in Orders(S \ {x})} : x \in S}
Perms(n) == Orders(1..n)
Permute(df, p) == AsList([i \in 1..Len(df) |-> df[p[i]]])
SortsBefore(a, b) == (~a.na /\ b.na) \/ (~a.na /\ ~b.na /\ a.n < b.n)
SortOrders(df, keys) ==
    {Permute(df, p) : p \in
        {q \in Perms(Len(df)) :
            \A i, j \in 1..Len(df) : i < j => ~SortsBefore(keys[q[j]], keys[q[i]])}}

\* the dtype pandas gives a column of cells read from a sheet: text that
\* reads as a number is converted, so an object column holds other text
IsNumericText(c) == c.kind = "str" /\ ~IsRaise(ParseFloat(c.s))
ColumnDtype(cells) ==
    IF \E i \in 1..Len(cells) : cells[i].kind \in {"str", "date"} THEN "object"
    ELSE IF \E i \in 1..Len(cells) : cells[i].kind \in {"null", "float", "inf"}
    THEN "float64"
    ELSE "int64"

\* a column as read_excel can return it
WellTypedColumn(cells) ==
    /\ \A i \in 1..Len(cells) : cells[i].kind # "raise"
    /\ (\E i \in 1..Len(cells) : IsNumericText(cells[i]))
          => \E j \in 1..Len(cells) : cells[j].kind = "str" /\ ~IsNumericText(cells[j])
    /\ ColumnDtype(cells) = "float64"
          => \A i \in 1..Len(cells) : cells[i].kind # "int"
    /\ ColumnDtype(cells) = "float64"
          => \E i \in 1..Len(cells) :
                cells[i].kind \in {"null", "inf"} \/ (cells[i].kind = "float" /\ cells[i].n % 2 = 1)

(***************************************************************************)
(* config.py                                                               *)
(***************************************************************************)
\* SALES_FILES: "2024.xlsx", "2025.xlsx", "2025sep.xlsx"
NumSalesFiles == 3

\* CREDIT_RENAME
CreditRename(col) ==
    CASE col = "Code" -> "customer_code"
      [] col = "Balance" -> "balance"
      [] OTHER -> col

(***************************************************************************)
(* data_loader.py: load_clean_and_merge_data                               *)
(***************************************************************************)
NoRun ==
    [at |-> "notrun", out |-> "notrun", credit_df |-> <<>>, sales_std |-> <<>>,
     sales_df |-> <<>>, sales_aggregated |-> <<>>, margin_df |-> <<>>,
     final_df |-> <<>>, sales_detailed |-> <<>>]

\* return None at a stage, or an exception leaving the function there
ReturnNone(at) == [NoRun EXCEPT !.at = at, !.out = "none"]
Escapes(at) == [NoRun EXCEPT !.at = at, !.out = "raised"]

\* the balance with the sign the credit system gave it
KeepBalance(b) == b

\* credit_df['balance'] * -1: a missing balance stays missing
InvertBalance(b) == IF b.kind = "int" THEN IntV((-1) * b.n) ELSE b

\* drop_duplicates(subset=['customer_code'], keep='last') on the credit frame
DedupCredit(df) ==
    DropDuplicatesLast(df, [i \in 1..Len(df) |-> HashKey(df[i].customer_code)])

\* STEP 1: the credit frame, one row per raw customer code; ok is FALSE when
\* the try block ended in one of its except clauses
LoadCredit(file) ==
    IF file.status # "ok" THEN [ok |-> FALSE, columns |-> {}, df |-> <<>>]
    ELSE
      LET columns == {CreditRename(c) : c \in file.columns}
          clean == [i \in 1..Len(file.rows) |->
                      [idx |-> i,
                       customer_code |-> file.rows[i].Code,
                       balance |-> IF "balance" \in columns
                                   THEN clean_and_round_integer(file.rows[i].Balance)
                                   ELSE Null]]
          inverted == [i \in 1..Len(clean) |->
                         [clean[i] EXCEPT !.balance = InvertBalance(@)]]
      IN  IF \/ \E i \in 1..Len(clean) : IsRaise(clean[i].balance)
             \/ "customer_code" \notin columns
          THEN [ok |-> FALSE, columns |-> columns, df |-> <<>>]
          ELSE [ok |-> TRUE, columns |-> columns, df |-> DedupCredit(inverted)]

\* pd.concat gives the column the common dtype of the files' columns: an
\* int64 column joined to a float64 one becomes float64
ConcatCell(c, dtype) ==
    IF dtype = "float64" /\ c.kind = "int" THEN FltV(2 * c.n) ELSE c

\* the sales files that can be read, concatenated; the others skipped
LoadSalesSkipping(files) ==
    LET rows == Flatten([k \in 1..Len(files) |->
                    IF files[k].status = "ok" THEN files[k].rows ELSE <<>>])
        dtype == ColumnDtype([i \in 1..Len(rows) |-> rows[i].Cust])
    IN  [ok |-> TRUE,
         df |-> [i \in 1..Len(rows) |->
                   [idx |-> i,
                    invoice_number |-> rows[i].Inv,
                    delivery_date |-> rows[i].Date,
                    customer_code |-> ConcatCell(rows[i].Cust, dtype),
                    customer_name |-> rows[i].Client,
                    product_name |-> rows[i].Product,
                    amount |-> rows[i].Amnt]]]

\* STEP 2: the sales files, read and concatenated in the order of SALES_FILES
LoadSales(files) ==
    IF \E k \in 1..Len(files) : files[k].status # "ok"
    THEN [ok |-> FALSE, df |-> <<>>]
    ELSE
      LET rows == Flatten([k \in 1..Len(files) |-> files[k].rows])
          dtype == ColumnDtype([i \in 1..Len(rows) |-> rows[i].Cust])
      IN  [ok |-> TRUE,
           df |-> [i \in 1..Len(rows) |->
                     [idx |-> i,
                      invoice_number |-> rows[i].Inv,
                      delivery_date |-> rows[i].Date,
                      customer_code |-> ConcatCell(rows[i].Cust, dtype),
                      customer_name |-> rows[i].Client,
                      product_name |-> rows[i].Product,
                      amount |-> rows[i].Amnt]]]

\* STEP 3: every column but customer_code through its normaliser (SALES_DTYPES)
CleanSales(df) ==
    [i \in 1..Len(df) |->
        [idx |-> df[i].idx,
         invoice_number |-> clean_and_trim_string(df[i].invoice_number),
         delivery_date |-> parse_date(df[i].delivery_date),
         customer_code |-> df[i].customer_code,
         customer_name |-> clean_and_trim_string(df[i].customer_name),
         product_name |-> clean_and_trim_string(df[i].product_name),
         amount |-> clean_and_round_integer(df[i].amount)]]

\* STEP 3B, credit side: fillna(-1).astype(int).astype(str)
StandardizeCreditCode(code) ==
    LET i == CASE code.kind = "null" -> IntV(-1)
               [] code.kind = "int" -> code
               [] code.kind = "float" -> IntV(TruncHalves(code.n))
               [] code.kind = "str" -> ParseInt(code.s)
               [] code.kind = "inf" -> Raise("ValueError")
               [] OTHER -> Raise("TypeError")
    IN  IF IsRaise(i) THEN i ELSE StrV(IntToStr(i.n))

\* STEP 3B, sales side: astype(str)
StandardizeSalesCode(code) == StrV(PyStr(code))

\* the identity fillna(-1) gives a row without a code
Sentinel == StrV(<<"-", "1">>)

CodeSet(df) == {df[i].customer_code : i \in 1..Len(df)}

\* a guard that lets every run through
NeverNoMatch(credit_df, sales_df) == FALSE

\* immediate_matches == 0
NoImmediateMatch(credit_df, sales_df) == CodeSet(credit_df) \cap CodeSet(sales_df) = {}

\* STEP 4: the keys of sort_values('delivery_date', ascending=False) and of
\* sort_values('delivery_date', ascending=True), NaT last in both
NewerFirst(df) ==
    [i \in 1..Len(df) |->
        [na |-> df[i].delivery_date.kind # "date", n |-> 0 - df[i].delivery_date.n]]
OlderFirst(df) ==
    [i \in 1..Len(df) |->
        [na |-> df[i].delivery_date.kind # "date", n |-> df[i].delivery_date.n]]

\* subset=['invoice_number', 'product_name']
InvoiceLineKey(r) == <<HashKey(r.invoice_number), HashKey(r.product_name)>>
SameInvoiceLine(a, b) == InvoiceLineKey(a) = InvoiceLineKey(b)

\* the same drop_duplicates with keep='last'
DedupSalesLinesKeepLast(df) ==
    DropDuplicatesLast(df, [i \in 1..Len(df) |-> InvoiceLineKey(df[i])])

\* drop_duplicates(subset=['invoice_number', 'product_name'], keep='first')
DedupSalesLines(df) ==
    DropDuplicatesFirst(df, [i \in 1..Len(df) |-> InvoiceLineKey(df[i])])

\* STEP 4 as a whole: the frames it can leave
RemoveDuplicateInvoices(sales_df) ==
    UNION {LET kept == DedupSalesLines(sorted)
           IN  SortOrders(kept, OlderFirst(kept)) :
              sorted \in SortOrders(sales_df, NewerFirst(sales_df))}

\* STEP 6: groupby('customer_code').agg(...), one row per identity; sums and
\* maxima skip missing values, nunique counts the invoices that are present
AggregateSales(sales_df) ==
    LET n == Len(sales_df)
        firsts == {i \in 1..n :
                     ~\E j \in 1..(i - 1) : sales_df[j].customer_code = sales_df[i].customer_code}
        Lines(code) == SelectSeq(sales_df, LAMBDA r : r.customer_code = code)
        Agg(code) ==
            LET ls == Lines(code)
                amounts == SelectSeq([k \in 1..Len(ls) |-> ls[k].amount],
                                     LAMBDA a : a.kind = "int")
                dates == {ls[k].delivery_date.n : k \in
                             {m \in 1..Len(ls) : ls[m].delivery_date.kind = "date"}}
                invoices == {ls[k].invoice_number : k \in
                                {m \in 1..Len(ls) : ~IsNa(ls[m].invoice_number)}}
            IN  [customer_code |-> code,
                 total_sales_amount |->
                     IntV(SumSeq([k \in 1..Len(amounts) |-> amounts[k].n])),
                 last_delivery_date |->
                     IF dates = {} THEN Null
                     ELSE DateV(CHOOSE d \in dates : \A e \in dates : e <= d),
                 invoice_count |-> IntV(Cardinality(invoices))]
    IN  [k \in 1..Cardinality(firsts) |->
            Agg(PickRows(sales_df, firsts)[k].customer_code)]

\* the same drop_duplicates with keep='first'
DedupMarginKeepFirst(df) ==
    DropDuplicatesFirst(df, [i \in 1..Len(df) |-> HashKey(df[i].invoice_number)])

\* drop_duplicates(subset=['invoice_number'], keep='last') on the margin frame
DedupMargin(df) ==
    DropDuplicatesLast(df, [i \in 1..Len(df) |-> HashKey(df[i].invoice_number)])

\* STEP 7: the margin frame; a file that is missing or cannot be read, and
\* any exception while cleaning, leave an empty frame and the load goes on
LoadMargin(file) ==
    IF file.status # "ok" THEN <<>>
    ELSE
      LET clean == [i \in 1..Len(file.rows) |->
                      [invoice_number |-> clean_and_trim_string(file.rows[i].Invoice),
                       profit |-> clean_and_round_integer(file.rows[i].Profit)]]
      IN  IF \E i \in 1..Len(clean) : IsRaise(clean[i].profit) THEN <<>>
          ELSE DedupMargin(clean)

\* fillna(0)
FillZero(c) == IF IsNa(c) THEN IntV(0) ELSE c

\* the customer_code column of a frame
CodeColumn(df) == [i \in 1..Len(df) |-> df[i].customer_code]

\* the rows of the customer summary for the pairs of a merge, with the
\* defaults of STEP 10
SummaryRows(credit_df, sales_aggregated, pairs) ==
    [k \in 1..Len(pairs) |->
        LET c == credit_df[pairs[k][1]]
            matched == pairs[k][2] # 0
        IN  [idx |-> c.idx, customer_code |-> c.customer_code,
             balance |-> c.balance,
             total_sales_amount |->
                 IF matched THEN FillZero(sales_aggregated[pairs[k][2]].total_sales_amount)
                 ELSE IntV(0),
             last_delivery_date |->
                 IF matched THEN sales_aggregated[pairs[k][2]].last_delivery_date
                 ELSE Null,
             invoice_count |->
                 IF matched THEN FillZero(sales_aggregated[pairs[k][2]].invoice_count)
                 ELSE IntV(0)]]

\* the same merge with how='inner'
InnerMergeSalesIntoCredit(credit_df, sales_aggregated) ==
    SummaryRows(credit_df, sales_aggregated,
                InnerMerge(CodeColumn(credit_df), CodeColumn(sales_aggregated)))

\* STEP 8: sales aggregates merged INTO the credit frame, how='left' on
\* customer_code
MergeSalesIntoCredit(credit_df, sales_aggregated) ==
    SummaryRows(credit_df, sales_aggregated,
                LeftMerge(CodeColumn(credit_df), CodeColumn(sales_aggregated)))

\* STEP 9, first merge: margin onto the sales lines, how='left' on invoice_number
MergeMargin(sales_df, margin_df) ==
    LET pairs == LeftMerge([i \in 1..Len(sales_df) |-> sales_df[i].invoice_number],
                           [j \in 1..Len(margin_df) |-> margin_df[j].invoice_number])
    IN  [k \in 1..Len(pairs) |->
            [line |-> sales_df[pairs[k][1]],
             profit |-> IF pairs[k][2] = 0 THEN Null ELSE margin_df[pairs[k][2]].profit]]

\* the balance join with the line's own amount written over a matched balance
MergeBalanceFromSales(with_margin, credit_df) ==
    LET pairs == LeftMerge([i \in 1..Len(with_margin) |-> with_margin[i].line.customer_code],
                           CodeColumn(credit_df))
    IN  [k \in 1..Len(pairs) |->
            LET w == with_margin[pairs[k][1]]
            IN  [idx |-> w.line.idx,
                 invoice_number |-> w.line.invoice_number,
                 delivery_date |-> w.line.delivery_date,
                 customer_code |-> w.line.customer_code,
                 customer_name |-> w.line.customer_name,
                 product_name |-> w.line.product_name,
                 amount |-> w.line.amount,
                 profit |-> FillZero(w.profit),
                 balance |-> IF pairs[k][2] = 0 THEN IntV(0) ELSE w.line.amount]]

\* the balance join without the fillna(0) of STEP 10
MergeBalanceUnfilled(with_margin, credit_df) ==
    LET pairs == LeftMerge([i \in 1..Len(with_margin) |-> with_margin[i].line.customer_code],
                           CodeColumn(credit_df))
    IN  [k \in 1..Len(pairs) |->
            LET w == with_margin[pairs[k][1]]
            IN  [idx |-> w.line.idx,
                 invoice_number |-> w.line.invoice_number,
                 delivery_date |-> w.line.delivery_date,
                 customer_code |-> w.line.customer_code,
                 customer_name |-> w.line.customer_name,
                 product_name |-> w.line.product_name,
                 amount |-> w.line.amount,
                 profit |-> FillZero(w.profit),
                 balance |-> IF pairs[k][2] = 0 THEN Null
                             ELSE credit_df[pairs[k][2]].balance]]

\* STEP 9, second merge: the credit balance onto every line, how='left' on
\* customer_code; STEP 10 fills the missing profits and balances with 0
MergeBalance(with_margin, credit_df) ==
    LET pairs == LeftMerge([i \in 1..Len(with_margin) |-> with_margin[i].line.customer_code],
                           CodeColumn(credit_df))
    IN  [k \in 1..Len(pairs) |->
            LET w == with_margin[pairs[k][1]]
            IN  [idx |-> w.line.idx,
                 invoice_number |-> w.line.invoice_number,
                 delivery_date |-> w.line.delivery_date,
                 customer_code |-> w.line.customer_code,
                 customer_name |-> w.line.customer_name,
                 product_name |-> w.line.product_name,
                 amount |-> w.line.amount,
                 profit |-> FillZero(w.profit),
                 balance |-> IF pairs[k][2] = 0 THEN IntV(0)
                             ELSE FillZero(credit_df[pairs[k][2]].balance)]]

\* STEPS 5 to 12, after the lines are deduplicated
FinishLoad(columns, credit_df, sales_std, sales_df, margin_file) ==
    LET sales_aggregated == AggregateSales(sales_df)
        margin_df == LoadMargin(margin_file)
        final_df == MergeSalesIntoCredit(credit_df, sales_aggregated)
        done == [at |-> "done", out |-> "ok", credit_df |-> credit_df,
                 sales_std |-> sales_std, sales_df |-> sales_df,
                 sales_aggregated |-> sales_aggregated, margin_df |-> margin_df,
                 final_df |-> final_df,
                 sales_detailed |-> MergeBalance(MergeMargin(sales_df, margin_df),
                                                 credit_df)]
    IN  IF "balance" \notin columns
        THEN [done EXCEPT !.at = "merge", !.out = "raised", !.sales_detailed = <<>>]
        ELSE done

\* every way one call of load_clean_and_merge_data can end on the given files
load_clean_and_merge_data(credit_file, sales_files, margin_file) ==
    LET credit == LoadCredit(credit_file)
        sales == LoadSales(sales_files)
        clean == CleanSales(sales.df)
        codes == [i \in 1..Len(credit.df) |->
                     StandardizeCreditCode(credit.df[i].customer_code)]
        credit_df == SelectSeq(
            [i \in 1..Len(credit.df) |-> [credit.df[i] EXCEPT !.customer_code = codes[i]]],
            LAMBDA r : r.customer_code # Sentinel)
        sales_std == [i \in 1..Len(clean) |->
            [clean[i] EXCEPT !.customer_code = StandardizeSalesCode(@)]]
    IN  IF ~credit.ok THEN {ReturnNone("credit")}
        ELSE IF ~sales.ok THEN {ReturnNone("sales")}
        ELSE IF \E i \in 1..Len(clean) : IsRaise(clean[i].amount)
        THEN {Escapes("clean")}
        ELSE IF \E i \in 1..Len(codes) : IsRaise(codes[i])
        THEN {Escapes("standardize")}
        ELSE IF NoImmediateMatch(credit_df, sales_std)
        THEN {[ReturnNone("guard") EXCEPT !.credit_df = credit_df,
                                          !.sales_std = sales_std]}
        ELSE {FinishLoad(credit.columns, credit_df, sales_std, sales_df, margin_file) :
                 sales_df \in RemoveDuplicateInvoices(sales_std)}

(***************************************************************************)
(* data_loader.py: update_database, as the dashboard route triggers it     *)
(***************************************************************************)
\* sales.db before the first run, or with the table dropped
NoTable == [exists |-> FALSE, rows |-> <<>>, missing |-> "table"]
Table(rows) == [exists |-> TRUE, rows |-> rows, missing |-> "nothing"]
\* no sales.db in the data directory; no data directory
NoDatabase == [exists |-> FALSE, rows |-> <<>>, missing |-> "file"]
NoDirectory == [exists |-> FALSE, rows |-> <<>>, missing |-> "directory"]
\* a sales_data table without a column the scoring query reads
NoColumn == [exists |-> FALSE, rows |-> <<>>, missing |-> "column"]

\* what get_customer_scores and the analysis functions have before a call
NoScores == [ledger |-> NoTable, out |-> "notrun", rows |-> {}, frame |-> <<>>]
NoView == [fn |-> "none", out |-> "notrun", rows |-> <<>>]

\* the rows to_sql(index=False) stores for a frame
ToSql(frame) ==
    [i \in 1..Len(frame) |->
        [invoice_number |-> frame[i].invoice_number,
         delivery_date |-> frame[i].delivery_date,
         customer_code |-> frame[i].customer_code,
         customer_name |-> frame[i].customer_name,
         product_name |-> frame[i].product_name,
         amount |-> frame[i].amount,
         profit |-> frame[i].profit,
         balance |-> frame[i].balance]]

\* dashboard_routes.update_database: the text answered for an outcome
RouteResponse(outcome) ==
    CASE outcome = "True" -> "updated"
      [] outcome = "False" -> "failed"
      [] OTHER -> "error"

\* a run that appends its transaction detail to the table it finds
UpdateDatabaseAppending ==
    /\ nruns < MaxRuns
    /\ nruns' = nruns + 1
    /\ \E r \in load_clean_and_merge_data(creditFile, salesFiles, marginFile) :
        /\ run' = r
        /\ \/ /\ r.out = "none"
              /\ ret' = "False"
              /\ db' = db
           \/ /\ r.out = "raised"
              /\ ret' = "raised"
              /\ db' = db
           \/ /\ r.out = "ok"
              /\ \/ /\ db.missing # "directory"
                    /\ ret' = "True"
                    /\ db' = Table(db.rows \o ToSql(r.sales_detailed))
                 \/ ret' = "False" /\ db' = db
        /\ response' = RouteResponse(ret')
        /\ UNCHANGED <<creditFile, salesFiles, marginFile, scores, field, cleaned, view>>

\* to_sql either stores the frame, or fails before it touched the table, or
\* fails after the old table was dropped and the new one created empty;
\* sqlite3.connect cannot create sales.db in a directory that does not exist
UpdateDatabase ==
    /\ nruns < MaxRuns
    /\ nruns' = nruns + 1
    /\ \E r \in load_clean_and_merge_data(creditFile, salesFiles, marginFile) :
        /\ run' = r
        /\ \/ /\ r.out = "none"
              /\ ret' = "False"
              /\ db' = db
           \/ /\ r.out = "raised"
              /\ ret' = "raised"
              /\ db' = db
           \/ /\ r.out = "ok"
              /\ \/ /\ db.missing # "directory"
                    /\ ret' = "True"
                    /\ db' = Table(ToSql(r.sales_detailed))
                 \/ ret' = "False" /\ db' = db
                 \/ /\ db.missing # "directory"
                    /\ ret' = "False"
                    /\ db' = Table(<<>>)
        /\ response' = RouteResponse(ret')
        /\ UNCHANGED <<creditFile, salesFiles, marginFile, scores, field, cleaned, view>>

(***************************************************************************)
(* scoring.py: get_customer_scores, the query on sales_data                *)
(***************************************************************************)
VISIT_CYCLE_DAYS == 7

\* the day JULIANDAY('now') falls on
Today == 9

RECURSIVE SumOver(_, _)
SumOver(f, S) ==
    IF S = {} THEN 0
    ELSE LET x == CHOOSE y \in S : TRUE IN f[x] + SumOver(f, S \ {x})

\* rows WHERE delivery_date IS NOT NULL
DatedLines(table) == {i \in 1..Len(table) : table[i].delivery_date.kind = "date"}

\* CTE invoice_level: SELECT DISTINCT customer_code, customer_name,
\* invoice_number, delivery_date, profit, balance
InvoiceLevel(table) ==
    {[customer_code |-> table[i].customer_code,
      customer_name |-> table[i].customer_name,
      invoice_number |-> table[i].invoice_number,
      delivery_date |-> table[i].delivery_date,
      profit |-> table[i].profit,
      balance |-> table[i].balance] : i \in DatedLines(table)}

\* CTE product_aggregates: SUM(amount) GROUP BY customer_code, customer_name
ProductAggregates(table) ==
    {[customer_code |-> table[i].customer_code,
      customer_name |-> table[i].customer_name,
      total_amount |->
          LET g == {j \in DatedLines(table) :
                       /\ table[j].customer_code = table[i].customer_code
                       /\ table[j].customer_name = table[i].customer_name}
              present == {j \in g : table[j].amount.kind = "int"}
          IN  IF present = {} THEN Null
              ELSE IntV(SumOver([j \in present |-> table[j].amount.n], present))]
        : i \in DatedLines(table)}

\* invoice_level i JOIN product_aggregates p ON i.customer_code = p.customer_code
JoinedRows(table) ==
    UNION {{[i |-> inv, p |-> agg] : agg \in
               {q \in ProductAggregates(table) : q.customer_code = inv.customer_code}} :
           inv \in InvoiceLevel(table)}

\* GROUP BY i.customer_name, i.customer_code
ScoreGroups(table) ==
    {[customer_name |-> r.i.customer_name, customer_code |-> r.i.customer_code] :
        r \in JoinedRows(table)}

GroupRows(table, g) ==
    {r \in JoinedRows(table) :
        r.i.customer_name = g.customer_name /\ r.i.customer_code = g.customer_code}

\* one result row of the query; p.total_amount is a bare column of an
\* aggregate query and SQLite takes it from a row of the group it picks (bare)
QueryRow(table, g, bare) ==
    LET rows == GroupRows(table, g)
        dates == {r.i.delivery_date.n : r \in rows}
        latest == CHOOSE d \in dates : \A e \in dates : e <= d
        earliest == CHOOSE d \in dates : \A e \in dates : d <= e
        balances == {r.i.balance.n : r \in {q \in rows : q.i.balance.kind = "int"}}
        span == latest - earliest
    IN  [customer_name |-> g.customer_name,
         customer_code |-> g.customer_code,
         recency |-> Today - latest,
         frequency |-> Cardinality({r.i.invoice_number :
                                      r \in {q \in rows : ~IsNa(q.i.invoice_number)}}),
         monetary_value |-> bare.p.total_amount,
         total_profit |->
             SumOver([r \in rows |-> IF r.i.profit.kind = "int" THEN r.i.profit.n ELSE 0],
                     rows),
         balance |-> IF balances = {} THEN 0
                     ELSE CHOOSE b \in balances : \A c \in balances : c <= b,
         days_active |-> span]

\* HAVING p.total_amount > 0
Having(row) == row.monetary_value.kind = "int" /\ row.monetary_value.n > 0

\* the results the query can give: one pick of the bare row per group
RECURSIVE ResultsOver(_, _)
ResultsOver(table, groups) ==
    IF groups = {} THEN {{}}
    ELSE LET g == CHOOSE x \in groups : TRUE
             rows == {QueryRow(table, g, bare) : bare \in GroupRows(table, g)}
         IN  {rest \cup (IF Having(row) THEN {row} ELSE {}) :
                 rest \in ResultsOver(table, groups \ {g}), row \in rows}

QueryResults(table) == ResultsOver(table, ScoreGroups(table))

\* ---------------------------------------------------------------------------
\* scoring.py: thresholds and helper functions
\* ---------------------------------------------------------------------------

\* the quintiles of create_score: populations with fewer distinct values
\* take the small-population branch
Quintiles == 5

DSO_EXCELLENT == 14
DSO_GOOD == 21
DSO_FAIR == 35
DSO_POOR == 60
MARGIN_EXCELLENT == 10
MARGIN_GOOD == 8
MARGIN_FAIR == 5
MARGIN_LOW == 3

\* a float column's value kept exact: the fraction num / den, den > 0
Frac(n, d) == [num |-> n, den |-> d]
IntF(i) == Frac(i, 1)
FracMul(a, b) == Frac(a.num * b.num, a.den * b.den)
\* a / b for b # 0
FracDiv(a, b) == Frac(a.num * b.den * Sign(b.num), a.den * Abs(b.num))
FracLeq(a, b) == a.num * b.den <= b.num * a.den
FracLess(a, b) == a.num * b.den < b.num * a.den
FracEq(a, b) == a.num * b.den = b.num * a.den
\* the integer nearest to a value, a half going to the even neighbour
FracRound(a) ==
    LET q == a.num \div a.den
        r == 2 * (a.num % a.den)
    IN  IF r < a.den \/ (r = a.den /\ q % 2 = 0) THEN q ELSE q + 1

\* a scored column: one label per row
SeriesV(xs) == [kind |-> "series", n |-> 0, s |-> AsList(xs)]

Min(a, b) == IF a <= b THEN a ELSE b

\* Series.nunique()
NUnique(series) == Cardinality({series[i] : i \in 1..Len(series)})

\* Series.rank(method='first'): equal values are ranked in row order
RankFirst(series) ==
    AsList([i \in 1..Len(series) |->
        1 + Cardinality({j \in 1..Len(series) : series[j] < series[i]})
          + Cardinality({j \in 1..(i - 1) : series[j] = series[i]})])

\* pd.cut(ranks, bins=k, include_lowest=True) of the ranks 1..n: the number of
\* the equal-width interval (right-closed) of [1, n] each rank falls in; one
\* single rank has its range widened on both sides and sits in the middle
CutRanks(ranks, k) ==
    LET n == Len(ranks)
    IN  AsList([i \in 1..n |->
            IF n = 1 THEN (k + 1) \div 2
            ELSE IF ranks[i] = 1 THEN 1
            ELSE CHOOSE j \in 1..k : /\ (j - 1) * (n - 1) < (ranks[i] - 1) * k
                                     /\ (ranks[i] - 1) * k <= j * (n - 1)])

\* the values in ascending order
Sorted(series) ==
    LET r == RankFirst(series)
    IN  AsList([k \in 1..Len(series) |->
                   series[CHOOSE i \in 1..Len(series) : r[i] = k]])

\* 5 * quantile(i / 5) of the sorted values v, linear interpolation between
\* the two neighbouring order statistics
Quantile5(v, i) ==
    LET n == Len(v)
        lo == (i * (n - 1)) \div 5
        rem == (i * (n - 1)) % 5
    IN  IF rem = 0 THEN 5 * v[lo + 1]
        ELSE 5 * v[lo + 1] + rem * (v[lo + 2] - v[lo + 1])

\* pd.qcut(series, q=5, labels=<5 labels>, duplicates='drop'): the number of
\* the quintile interval of each value; ValueError when dropping duplicate
\* edges leaves fewer than 5 intervals for the 5 labels
QCut(series) ==
    LET v == Sorted(series)
        edge == AsList([k \in 1..6 |-> Quantile5(v, k - 1)])
    IN  IF Cardinality({edge[k] : k \in 1..6}) < 6 THEN Raise("ValueError")
        ELSE SeriesV([i \in 1..Len(series) |->
                IF 5 * series[i] = edge[1] THEN 1
                ELSE CHOOSE j \in 1..5 : /\ edge[j] < 5 * series[i]
                                         /\ 5 * series[i] <= edge[j + 1]])

\* the scores with the labels rising in both directions
CreateScoreAscending(series, reverse) ==
    IF NUnique(series) < Quintiles
    THEN SeriesV(CutRanks(RankFirst(series), Min(NUnique(series), 5)))
    ELSE IF IsRaise(QCut(RankFirst(series)))
         THEN SeriesV(CutRanks(RankFirst(series), 5))
         ELSE QCut(RankFirst(series))

\* create_score(series, reverse): with fewer than 5 distinct values the
\* reverse branch builds its labels with min(series.nunique()), min() of one
\* int, which is a TypeError; the other branch labels the bins 1..nunique
create_score(series, reverse) ==
    LET ranks == RankFirst(series)
        cut5 == CutRanks(ranks, 5)
    IN  IF NUnique(series) < Quintiles
        THEN IF reverse THEN Raise("TypeError")
             ELSE SeriesV(CutRanks(ranks, Min(NUnique(series), 5)))
        ELSE IF reverse
             THEN LET q == QCut(series)
                  IN  IF IsRaise(q)
                      THEN SeriesV([i \in 1..Len(series) |-> 6 - cut5[i]])
                      ELSE SeriesV([i \in 1..Len(series) |-> 6 - q.s[i]])
             ELSE LET q == QCut(ranks)
                  IN  IF IsRaise(q) THEN SeriesV(cut5) ELSE q

\* the DSO bands alone, whatever the balance
CreditScoreByDsoOnly(row) ==
    IF FracLeq(row.dso, IntF(DSO_EXCELLENT)) THEN 5
    ELSE IF FracLeq(row.dso, IntF(DSO_GOOD)) THEN 4
    ELSE IF FracLeq(row.dso, IntF(DSO_FAIR)) THEN 3
    ELSE IF FracLeq(row.dso, IntF(DSO_POOR)) THEN 2
    ELSE 1

\* calculate_credit_score(row)
calculate_credit_score(row) ==
    IF row.balance <= 0 THEN 5
    ELSE IF FracLeq(row.dso, IntF(DSO_EXCELLENT)) THEN 5
    ELSE IF FracLeq(row.dso, IntF(DSO_GOOD)) THEN 4
    ELSE IF FracLeq(row.dso, IntF(DSO_FAIR)) THEN 3
    ELSE IF FracLeq(row.dso, IntF(DSO_POOR)) THEN 2
    ELSE 1

\* the margin bands with their lower edges left out
ProfitScoreAboveEdges(margin_pct) ==
    IF FracLess(IntF(MARGIN_EXCELLENT), margin_pct) THEN 5
    ELSE IF FracLess(IntF(MARGIN_GOOD), margin_pct) THEN 4
    ELSE IF FracLess(IntF(MARGIN_FAIR), margin_pct) THEN 3
    ELSE IF FracLess(IntF(MARGIN_LOW), margin_pct) THEN 2
    ELSE 1

\* calculate_profit_score(margin_pct)
calculate_profit_score(margin_pct) ==
    IF FracLeq(IntF(MARGIN_EXCELLENT), margin_pct) THEN 5
    ELSE IF FracLeq(IntF(MARGIN_GOOD), margin_pct) THEN 4
    ELSE IF FracLeq(IntF(MARGIN_FAIR), margin_pct) THEN 3
    ELSE IF FracLeq(IntF(MARGIN_LOW), margin_pct) THEN 2
    ELSE 1

\* the five scores added without their weights
UnweightedTotal(row) ==
    row.R_Score + row.F_Score + row.M_Score + row.C_Score + row.P_Score

\* Total_Score and RFM_Score of a row that has its five scores
TotalScore(row) ==
    row.R_Score * 4 + row.F_Score * 3 + row.M_Score * 6 + row.C_Score * 4
        + row.P_Score * 3
RFMScore(row) == row.R_Score + row.F_Score + row.M_Score

\* the band of Total_Score alone
SegmentByTotalOnly(row) ==
    IF row.Total_Score >= 85 THEN "Champions"
    ELSE IF row.Total_Score >= 70 THEN "Loyal"
    ELSE IF row.Total_Score >= 55 THEN "Potential"
    ELSE IF row.Total_Score >= 40 THEN "At Risk"
    ELSE "Dormant"

\* assign_segment(row); the labels are written without their emoji
assign_segment(row) ==
    IF row.C_Score = 1 /\ row.balance > 50000 THEN "High Risk"
    ELSE IF row.C_Score <= 2 /\ row.balance > 20000 THEN "Credit Risk"
    ELSE IF row.P_Score <= 2 /\ row.RFM_Score >= 10 THEN "Review Pricing"
    ELSE IF row.Total_Score >= 85 THEN "Champions"
    ELSE IF row.Total_Score >= 70 THEN "Loyal"
    ELSE IF row.Total_Score >= 55 THEN "Potential"
    ELSE IF row.Total_Score >= 40 THEN "At Risk"
    ELSE "Dormant"

\* the first flag that applies, alone
FirstRiskFlagOnly(row) ==
    IF row.C_Score <= 2 /\ row.balance > 0 THEN <<"CREDIT">>
    ELSE IF row.P_Score <= 2 THEN <<"PROFIT">>
    ELSE IF row.R_Score <= 2 THEN <<"INACTIVE">>
    ELSE <<"OK">>

\* the flags with CREDIT never raised
RiskFlagWithoutCredit(row) ==
    IF row.P_Score <= 2 /\ row.R_Score <= 2 THEN <<"PROFIT", "INACTIVE">>
    ELSE IF row.P_Score <= 2 THEN <<"PROFIT">>
    ELSE IF row.R_Score <= 2 THEN <<"INACTIVE">>
    ELSE <<"OK">>

\* assign_risk_flag(row): the flags that " | ".join puts in one string
assign_risk_flag(row) ==
    LET flags == (IF row.C_Score <= 2 /\ row.balance > 0 THEN <<"CREDIT">> ELSE <<>>)
              \o (IF row.P_Score <= 2 THEN <<"PROFIT">> ELSE <<>>)
              \o (IF row.R_Score <= 2 THEN <<"INACTIVE">> ELSE <<>>)
    IN  IF flags = <<>> THEN <<"OK">> ELSE flags

\* "CREDIT" in risk, "INACTIVE" in risk: the flag is one of the joined flags
HasFlag(risk, flag) == \E i \in 1..Len(risk) : risk[i] = flag

\* the priority read off the segment alone
PriorityBySegmentOnly(row) ==
    IF row.Segment = "High Risk" THEN 1
    ELSE IF row.Segment \in {"Credit Risk", "Review Pricing"} THEN 2
    ELSE IF row.Segment \in {"Potential", "At Risk"} THEN 3
    ELSE IF row.Segment \in {"Champions", "Loyal"} THEN 4
    ELSE 5

\* assign_priority(row): the emoji tests are tests of the segment label
assign_priority(row) ==
    IF row.Segment = "High Risk" \/ HasFlag(row.Risk_Flag, "CREDIT") THEN 1
    ELSE IF row.Segment \in {"Credit Risk", "Review Pricing"} THEN 2
    ELSE IF row.Segment \in {"Potential", "At Risk"}
            \/ HasFlag(row.Risk_Flag, "INACTIVE") THEN 3
    ELSE IF row.Segment \in {"Champions", "Loyal"} THEN 4
    ELSE 5

\* weekly_sales = (monetary_value / days_active) * VISIT_CYCLE_DAYS; the
\* cleaning has clipped days_active to at least VISIT_CYCLE_DAYS
WeeklySales(row) ==
    FracMul(FracDiv(IntF(row.monetary_value), IntF(row.days_active)),
            IntF(VISIT_CYCLE_DAYS))

\* the days owed without the clip
DsoUnclipped(row) ==
    LET weekly == WeeklySales(row)
    IN  IF weekly.num > 0 /\ row.balance > 0
        THEN FracMul(FracDiv(IntF(row.balance), weekly), IntF(VISIT_CYCLE_DAYS))
        ELSE IntF(0)

\* dso: np.where computes both branches for every row, a division by 0.0
\* gives inf or NaN there without raising, and the condition discards it;
\* then clip(lower=0, upper=999)
Dso(row) ==
    LET weekly == WeeklySales(row)
        owed == FracMul(FracDiv(IntF(row.balance), weekly), IntF(VISIT_CYCLE_DAYS))
        dso == IF weekly.num > 0 /\ row.balance > 0 THEN owed ELSE IntF(0)
    IN  IF FracLess(dso, IntF(0)) THEN IntF(0)
        ELSE IF FracLess(IntF(999), dso) THEN IntF(999)
        ELSE dso

\* profit_margin_pct: np.where(monetary_value > 0, total_profit / monetary_value * 100, 0)
ProfitMarginPct(row) ==
    IF row.monetary_value > 0
    THEN FracMul(FracDiv(IntF(row.total_profit), IntF(row.monetary_value)), IntF(100))
    ELSE IntF(0)

\* the business metrics of one cleaned row
Metrics(row) ==
    [customer_name |-> row.customer_name, customer_code |-> row.customer_code,
     recency |-> row.recency, frequency |-> row.frequency,
     monetary_value |-> row.monetary_value, total_profit |-> row.total_profit,
     balance |-> row.balance, days_active |-> row.days_active,
     weekly_sales |-> WeeklySales(row),
     monthly_sales |-> FracMul(WeeklySales(row), IntF(4)),
     dso |-> Dso(row),
     weeks_owing |-> FracDiv(Dso(row), IntF(VISIT_CYCLE_DAYS)),
     profit_margin_pct |-> ProfitMarginPct(row),
     avg_order_value |->
         IF row.frequency > 0
         THEN FracDiv(IntF(row.monetary_value), IntF(row.frequency))
         ELSE IntF(0),
     weeks_since_last_order |-> FracDiv(IntF(row.recency), IntF(VISIT_CYCLE_DAYS))]

\* the scores, totals and segmentation of one row that has its metrics and
\* its R, F and M scores
ScoreRow(row, r, f, m) ==
    LET subs == [R_Score |-> r, F_Score |-> f, M_Score |-> m,
                 C_Score |-> calculate_credit_score(row),
                 P_Score |-> calculate_profit_score(row.profit_margin_pct)]
        tot == [R_Score |-> r, F_Score |-> f, M_Score |-> m,
                C_Score |-> subs.C_Score, P_Score |-> subs.P_Score,
                balance |-> row.balance,
                Total_Score |-> TotalScore(subs), RFM_Score |-> RFMScore(subs)]
        seg == [Segment |-> assign_segment(tot), Risk_Flag |-> assign_risk_flag(tot)]
    IN  [customer_name |-> row.customer_name, customer_code |-> row.customer_code,
         recency |-> row.recency, frequency |-> row.frequency,
         monetary_value |-> row.monetary_value, total_profit |-> row.total_profit,
         balance |-> row.balance, days_active |-> row.days_active,
         weekly_sales |-> row.weekly_sales, monthly_sales |-> row.monthly_sales,
         dso |-> row.dso, weeks_owing |-> row.weeks_owing,
         profit_margin_pct |-> row.profit_margin_pct,
         avg_order_value |-> row.avg_order_value,
         weeks_since_last_order |-> row.weeks_since_last_order,
         R_Score |-> r, F_Score |-> f, M_Score |-> m,
         C_Score |-> subs.C_Score, P_Score |-> subs.P_Score,
         Total_Score |-> tot.Total_Score, RFM_Score |-> tot.RFM_Score,
         Segment |-> seg.Segment, Risk_Flag |-> seg.Risk_Flag,
         Priority |-> assign_priority(seg)]

\* Series.round(d) of a float: to the nearest multiple of 10^-d, halves to even
RoundTo(a, scale) == Frac(FracRound(FracMul(a, IntF(scale))), scale)

\* FORMAT: the metric columns rounded for display
FormatRow(row) ==
    [row EXCEPT !.weekly_sales = RoundTo(@, 1),
                !.monthly_sales = RoundTo(@, 1),
                !.dso = RoundTo(@, 1),
                !.profit_margin_pct = RoundTo(@, 10),
                !.avg_order_value = RoundTo(@, 1),
                !.weeks_owing = RoundTo(@, 10),
                !.weeks_since_last_order = RoundTo(@, 10)]

\* the data cleaning of the query's rows: monetary_value.fillna(0) and
\* days_active.clip(lower=VISIT_CYCLE_DAYS)
CleanScores(row) ==
    [row EXCEPT !.monetary_value = IF @.kind = "int" THEN @.n ELSE 0,
                !.days_active = IF @ < VISIT_CYCLE_DAYS THEN VISIT_CYCLE_DAYS ELSE @]

\* the scores of a frame that has its metrics, in the order the query
\* returned its rows: the five scores, totals, segmentation and formatting;
\* an exception of create_score is not caught
ScoredRows(df, R, F, M) ==
    IF IsRaise(R) THEN R
    ELSE IF IsRaise(F) THEN F
    ELSE IF IsRaise(M) THEN M
    ELSE SeriesV([i \in 1..Len(df) |->
                     FormatRow(ScoreRow(df[i], R.s[i], F.s[i], M.s[i]))])

ScoreFrame(df) ==
    ScoredRows(df,
               create_score(AsList([i \in 1..Len(df) |-> df[i].recency]), TRUE),
               create_score(AsList([i \in 1..Len(df) |-> df[i].frequency]), FALSE),
               create_score(AsList([i \in 1..Len(df) |-> df[i].monetary_value]), FALSE))

\* sort_values('Total_Score', ascending=False) of a frame with these rows:
\* every arrangement by falling Total_Score, rows with equal totals in any
\* order
ByTotalScore(rows) ==
    {o \in Orders(rows) :
        \A i, j \in 1..Len(o) : i < j => o[i].Total_Score >= o[j].Total_Score}

\* the frames the rows of a query result can be scored to, each as the set
\* of its rows, or the exception; the rows come in an order the query does
\* not fix
RowSet(built) ==
    IF IsRaise(built) THEN built
    ELSE SeriesV(AsList(<<{built.s[i] : i \in 1..Len(built.s)}>>))

ScoredResults(result) ==
    {RowSet(ScoreFrame(o)) : o \in Orders({Metrics(CleanScores(row)) : row \in result})}

\* a read that lets the failure of the query escape
ScoresWithoutChecks(ledger) ==
    IF ~ledger.exists
    THEN {[ledger |-> ledger, out |-> "raised", rows |-> {}, frame |-> <<>>]}
    ELSE {[ledger |-> ledger, out |-> "empty", rows |-> {}, frame |-> <<>>]}

\* the outcomes of get_customer_scores(include_all_columns=True) on a ledger:
\* an empty frame when the directory, the database or the table is missing,
\* when the query fails or returns no row; else the sorted frame of the
\* scored rows, or the exception that left create_score. The default call
\* returns a projection of the same rows.
get_customer_scores(ledger) ==
    IF ~ledger.exists
    THEN {[ledger |-> ledger, out |-> "empty", rows |-> {}, frame |-> <<>>]}
    ELSE UNION {
        IF result = {}
        THEN {[ledger |-> ledger, out |-> "empty", rows |-> {}, frame |-> <<>>]}
        ELSE UNION {
            IF IsRaise(built)
            THEN {[ledger |-> ledger, out |-> "raised", rows |-> {}, frame |-> <<>>]}
            ELSE {[ledger |-> ledger, out |-> "frame", rows |-> built.s[1],
                   frame |-> frame] : frame \in ByTotalScore(built.s[1])}
            : built \in ScoredResults(result)}
        : result \in QueryResults(ledger.rows)}

\* a read that remembers it has answered: only the first call queries the
\* ledger, later calls return an empty frame
GetCustomerScoresOnce ==
    /\ scores' \in IF scores.out = "notrun"
                   THEN get_customer_scores(db)
                   ELSE {[ledger |-> db, out |-> "empty", rows |-> {}, frame |-> <<>>]}
    /\ UNCHANGED <<creditFile, salesFiles, marginFile, db, run, ret, response,
                   nruns, field, cleaned, view>>

GetCustomerScores ==
    /\ scores' \in get_customer_scores(db)
    /\ UNCHANGED <<creditFile, salesFiles, marginFile, db, run, ret, response,
                   nruns, field, cleaned, view>>

\* ---------------------------------------------------------------------------
\* scoring.py: the analysis functions; each one scores the ledger itself
\* ---------------------------------------------------------------------------

\* default arguments: get_risk_customers(limit=50), get_top_customers(n=20)
RiskLimit == 50
TopN == 20

FirstRows(frame, n) == SubSeq(frame, 1, Min(n, Len(frame)))

\* what an analysis function answers when the scores are empty or the
\* scoring raised; Body(frame) is not asked for in these cases
EmptyView(fn) == [fn |-> fn, out |-> "empty", rows |-> <<>>]
RaisedView(fn) == [fn |-> fn, out |-> "raised", rows |-> <<>>]

\* groupby('Segment').agg(...).round(0).sort_values('avg_score', ascending=False)
SegmentSummary(frame) ==
    LET Rows(sg) == {i \in 1..Len(frame) : frame[i].Segment = sg}
        Line(sg) ==
            [Segment |-> sg,
             count |-> Cardinality(Rows(sg)),
             total_sales |-> SumOver([i \in Rows(sg) |-> frame[i].monetary_value], Rows(sg)),
             total_balance |-> SumOver([i \in Rows(sg) |-> frame[i].balance], Rows(sg)),
             total_profit |-> SumOver([i \in Rows(sg) |-> frame[i].total_profit], Rows(sg)),
             avg_score |->
                 FracRound(Frac(SumOver([i \in Rows(sg) |-> frame[i].Total_Score], Rows(sg)),
                                Cardinality(Rows(sg))))]
        lines == {Line(frame[i].Segment) : i \in 1..Len(frame)}
    IN  {o \in Orders(lines) :
            \A i, j \in 1..Len(o) : i < j => o[i].avg_score >= o[j].avg_score}

\* the rows whose Risk_Flag contains risk_type (all but "OK" for 'ALL'),
\* sorted by Priority ascending, then balance descending
RiskCustomers(frame, risk_type) ==
    LET risky == {i \in 1..Len(frame) :
                     IF risk_type = "ALL" THEN frame[i].Risk_Flag # <<"OK">>
                     ELSE HasFlag(frame[i].Risk_Flag, risk_type)}
        Before(x, y) == \/ x.Priority < y.Priority
                        \/ x.Priority = y.Priority /\ x.balance > y.balance
    IN  {FirstRows([k \in 1..Len(o) |-> frame[o[k]]], RiskLimit) :
            o \in {q \in Orders(risky) :
                      \A i, j \in 1..Len(q) :
                         i < j => ~Before(frame[q[j]], frame[q[i]])}}

\* scores.nlargest(n, 'Total_Score') of a frame sorted by Total_Score
TopCustomers(frame) == FirstRows(frame, TopN)

\* the figures of get_credit_summary
CreditSummary(frame) ==
    LET all == 1..Len(frame)
        owing == {i \in all : frame[i].balance > 0}
        we_owe == {i \in all : frame[i].balance < 0}
        risk == {i \in all : frame[i].C_Score <= 2}
        Balance(S) == SumOver([i \in S |-> frame[i].balance], S)
    IN  [total_customers |-> Len(frame),
         customers_owing_count |-> Cardinality(owing),
         customers_owing_amount |-> Balance(owing),
         customers_we_owe_count |-> Cardinality(we_owe),
         customers_we_owe_amount |-> Abs(Balance(we_owe)),
         net_balance |-> Balance(all),
         avg_dso |-> IF owing # {}
                     THEN Frac(SumOver([i \in owing |-> frame[i].dso.num], owing),
                               Cardinality(owing))
                     ELSE IntF(0),
         high_risk_count |-> Cardinality(risk),
         high_risk_amount |-> Balance(risk \cap owing)]

GetSegmentSummary ==
    /\ \E sc \in get_customer_scores(db) :
          \/ sc.out = "raised" /\ view' = RaisedView("get_segment_summary")
          \/ sc.out = "empty" /\ view' = EmptyView("get_segment_summary")
          \/ /\ sc.out = "frame"
             /\ \E summary \in SegmentSummary(sc.frame) :
                   view' = [fn |-> "get_segment_summary", out |-> "frame",
                            rows |-> summary]
    /\ UNCHANGED <<creditFile, salesFiles, marginFile, db, run, ret, response,
                   scores, nruns, field, cleaned>>

GetRiskCustomers ==
    /\ \E sc \in get_customer_scores(db) :
          \/ sc.out = "raised" /\ view' = RaisedView("get_risk_customers")
          \/ sc.out = "empty" /\ view' = EmptyView("get_risk_customers")
          \/ /\ sc.out = "frame"
             /\ \E risk_type \in {"CREDIT", "PROFIT", "INACTIVE", "ALL"} :
                   \E risky \in RiskCustomers(sc.frame, risk_type) :
                      view' = [fn |-> "get_risk_customers", out |-> "frame",
                               rows |-> risky]
    /\ UNCHANGED <<creditFile, salesFiles, marginFile, db, run, ret, response,
                   scores, nruns, field, cleaned>>

GetTopCustomers ==
    /\ \E sc \in get_customer_scores(db) :
          \/ sc.out = "raised" /\ view' = RaisedView("get_top_customers")
          \/ sc.out = "empty" /\ view' = EmptyView("get_top_customers")
          \/ /\ sc.out = "frame"
             /\ view' = [fn |-> "get_top_customers", out |-> "frame",
                         rows |-> TopCustomers(sc.frame)]
    /\ UNCHANGED <<creditFile, salesFiles, marginFile, db, run, ret, response,
                   scores, nruns, field, cleaned>>

GetCreditSummary ==
    /\ \E sc \in get_customer_scores(db) :
          \/ sc.out = "raised" /\ view' = RaisedView("get_credit_summary")
          \/ sc.out = "empty" /\ view' = EmptyView("get_credit_summary")
          \/ /\ sc.out = "frame"
             /\ view' = [fn |-> "get_credit_summary", out |-> "dict",
                         rows |-> <<CreditSummary(sc.frame)>>]
    /\ UNCHANGED <<creditFile, salesFiles, marginFile, db, run, ret, response,
                   scores, nruns, field, cleaned>>

(***************************************************************************)
(* The normalisers applied to one field                                    *)
(***************************************************************************)
CleanAndTrimString ==
    /\ cleaned' = [fn |-> "clean_and_trim_string", out |-> clean_and_trim_string(field)]
    /\ UNCHANGED <<creditFile, salesFiles, marginFile, db, run, ret, response,
                   scores, nruns, field, view>>

CleanAndRoundInteger ==
    /\ cleaned' = [fn |-> "clean_and_round_integer",
                   out |-> clean_and_round_integer(field)]
    /\ UNCHANGED <<creditFile, salesFiles, marginFile, db, run, ret, response,
                   scores, nruns, field, view>>

ParseDate ==
    /\ cleaned' = [fn |-> "parse_date", out |-> parse_date(field)]
    /\ UNCHANGED <<creditFile, salesFiles, marginFile, db, run, ret, response,
                   scores, nruns, field, view>>

(***************************************************************************)
(* The scoring helpers applied to one argument                             *)
(***************************************************************************)
CreateScore ==
    /\ field.kind = "population"
    /\ cleaned' = [fn |-> "create_score",
                   out |-> create_score(field.series, field.reverse)]
    /\ UNCHANGED <<creditFile, salesFiles, marginFile, db, run, ret, response,
                   scores, nruns, field, view>>

CalculateCreditScore ==
    /\ field.kind = "credit_row"
    /\ cleaned' = [fn |-> "calculate_credit_score", out |-> calculate_credit_score(field)]
    /\ UNCHANGED <<creditFile, salesFiles, marginFile, db, run, ret, response,
                   scores, nruns, field, view>>

\* df['profit_margin_pct'].apply(calculate_profit_score)
CalculateProfitScore ==
    /\ field.kind = "profit_row"
    /\ cleaned' = [fn |-> "calculate_profit_score",
                   out |-> calculate_profit_score(ProfitMarginPct(field))]
    /\ UNCHANGED <<creditFile, salesFiles, marginFile, db, run, ret, response,
                   scores, nruns, field, view>>

AssignSegment ==
    /\ field.kind = "segment_row"
    /\ cleaned' = [fn |-> "assign_segment", out |-> assign_segment(field)]
    /\ UNCHANGED <<creditFile, salesFiles, marginFile, db, run, ret, response,
                   scores, nruns, field, view>>

AssignRiskFlag ==
    /\ field.kind = "flag_row"
    /\ cleaned' = [fn |-> "assign_risk_flag", out |-> assign_risk_flag(field)]
    /\ UNCHANGED <<creditFile, salesFiles, marginFile, db, run, ret, response,
                   scores, nruns, field, view>>

AssignPriority ==
    /\ field.kind = "priority_row"
    /\ cleaned' = [fn |-> "assign_priority", out |-> assign_priority(field)]
    /\ UNCHANGED <<creditFile, salesFiles, marginFile, db, run, ret, response,
                   scores, nruns, field, view>>

\* the cleaning, metrics, scores and segmentation of get_customer_scores on
\* one row of the query, given the row's R, F and M scores
ScoreCustomer ==
    /\ field.kind = "customer_row"
    /\ cleaned' = [fn |-> "score_customer",
                   out |-> ScoreRow(Metrics(CleanScores(field.row)),
                                    field.r, field.f, field.m)]
    /\ UNCHANGED <<creditFile, salesFiles, marginFile, db, run, ret, response,
                   scores, nruns, field, view>>

(***************************************************************************)
(* The extracts the specifications start from                              *)
(***************************************************************************)
SeqsUpTo(S, n) == UNION {[1..k -> S] : k \in 0..n}

Chars7 == <<"7">>
CharsAbc == <<"a", "b", "c">>
A1 == StrV(<<"A", "1">>)
A2 == StrV(<<"A", "2">>)
P1 == StrV(<<"P", "1">>)
P2 == StrV(<<"P", "2">>)
N1 == StrV(<<"n", "1">>)
N2 == StrV(<<"n", "2">>)

\* credit extracts: every well-typed Code column over Codes, every Balance
\* column over Balances, with the column sets given
CreditFiles(Codes, Balances, ColumnSets) ==
    {[status |-> "ok", columns |-> cols, rows |-> rows] :
        cols \in ColumnSets,
        rows \in {q \in SeqsUpTo([Code : Codes, Balance : Balances], MaxCreditRows) :
                    /\ WellTypedColumn([i \in 1..Len(q) |-> q[i].Code])
                    /\ \A i \in 1..Len(q) : q[i].Balance.kind # "raise"}}

\* sales extracts: up to MaxSalesRows rows of Rows, the j-th row in the j-th
\* file of SALES_FILES (and round again), every Cust column well typed
Deal(rows) ==
    [k \in 1..NumSalesFiles |->
        [status |-> "ok",
         rows |-> PickRows(rows, {j \in 1..Len(rows) : (j - 1) % NumSalesFiles = k - 1})]]

SalesFileSets(Rows) ==
    {files \in {Deal(rows) : rows \in SeqsUpTo(Rows, MaxSalesRows)} :
        \A k \in 1..NumSalesFiles :
            WellTypedColumn([i \in 1..Len(files[k].rows) |-> files[k].rows[i].Cust])}

SalesRow(inv, date, cust, client, product, amnt) ==
    [Inv |-> inv, Date |-> date, Cust |-> cust, Client |-> client,
     Product |-> product, Amnt |-> amnt]

TheCredit ==
    [status |-> "ok", columns |-> {"Code", "Balance"},
     rows |-> <<[Code |-> IntV(7), Balance |-> IntV(-5)],
                [Code |-> IntV(8), Balance |-> IntV(3)]>>]

TheMargin ==
    [status |-> "ok",
     rows |-> <<[Invoice |-> A1, Profit |-> IntV(9)],
                [Invoice |-> A2, Profit |-> IntV(4)]>>]

CodeCells ==
    {Null, IntV(7), IntV(8), FltV(14), FltV(15), StrV(Chars7), StrV(CharsAbc)}

BalanceCells == {IntV(-5), IntV(3), FltV(5), Null, InfV(1)}

\* nothing has been run yet
NotRun ==
    /\ run = NoRun
    /\ ret = "notrun"
    /\ response = "none"
    /\ scores = NoScores
    /\ view = NoView
    /\ nruns = 0
    /\ field = Null
    /\ cleaned = [fn |-> "none", out |-> Null]

\* a fresh installation: no sales.db yet
Untouched == db = NoTable /\ NotRun

\* the extracts of the day: a line for each of two credit customers
TheSales ==
    Deal(<<SalesRow(A1, DateV(1), IntV(7), N1, P1, IntV(2)),
           SalesRow(A2, DateV(2), IntV(8), N2, P1, IntV(3))>>)

\* a credit extract that has no Balance column
CreditWithoutBalance ==
    [status |-> "ok", columns |-> {"Code"},
     rows |-> <<[Code |-> IntV(7), Balance |-> Null]>>]

\* customer codes in every representation on both sides
Init ==
    /\ creditFile \in
          CreditFiles(CodeCells, {IntV(-5)}, {{"Code", "Balance"}})
            \cup {CreditWithoutBalance}
    /\ salesFiles \in
          SalesFileSets({SalesRow(A1, DateV(1), c, N1, P1, IntV(2)) : c \in CodeCells})
    /\ marginFile = TheMargin
    /\ Untouched

Next == UpdateDatabase \/ GetCustomerScores

Spec == Init /\ [][Next]_vars

\* every roster of numeric codes, over sales lines for none, one or both of
\* the customers 7 and 8
InitRoster ==
    /\ creditFile \in
          CreditFiles({Null, IntV(7), IntV(8), FltV(14), FltV(15)}, {IntV(-5)},
                      {{"Code", "Balance"}})
    /\ salesFiles \in
          SalesFileSets({SalesRow(A1, DateV(1), IntV(7), N1, P1, IntV(2)),
                         SalesRow(A1, DateV(1), IntV(7), N1, P2, IntV(2)),
                         SalesRow(A2, DateV(2), IntV(8), N2, P1, IntV(3))})
    /\ marginFile = TheMargin
    /\ Untouched

SpecRoster == InitRoster /\ [][Next]_vars

\* every Balance column, over the sales lines of the day
InitBalance ==
    /\ creditFile \in
          CreditFiles({IntV(7), IntV(8)}, BalanceCells, {{"Code", "Balance"}})
    /\ salesFiles = TheSales
    /\ marginFile = TheMargin
    /\ Untouched

SpecBalance == InitBalance /\ [][Next]_vars

\* sales lines of one customer in every arrangement of invoice, product and
\* delivery date
InitSales ==
    /\ creditFile = TheCredit
    /\ salesFiles \in
          SalesFileSets({SalesRow(inv, d, IntV(7), N1, p, IntV(2)) :
                            inv \in {A1, A2}, d \in {DateV(1), DateV(2), Null},
                            p \in {P1, P2}})
    /\ marginFile = TheMargin
    /\ Untouched

SpecSales == InitSales /\ [][Next]_vars

\* the same with the customer name varying from line to line
InitLedger ==
    /\ creditFile = TheCredit
    /\ salesFiles \in
          SalesFileSets({SalesRow(inv, d, IntV(7), name, p, IntV(2)) :
                            inv \in {A1, A2}, d \in {DateV(1), DateV(2), Null},
                            name \in {N1, N2}, p \in {P1, P2}})
    /\ marginFile = TheMargin
    /\ Untouched

SpecLedger == InitLedger /\ [][Next]_vars

\* every margin extract of up to MaxMarginRows records, present, missing or
\* unreadable, over two lines of invoice A1 and one line of invoice A2; an
\* invoice number may come with blanks around it, a profit may be missing or
\* too large to round
A1Padded == StrV(<<" ", "A", "1">>)
MarginFiles ==
    {[status |-> "ok", rows |-> rows] :
        rows \in SeqsUpTo([Invoice : {A1, A1Padded, A2},
                           Profit : {IntV(9), IntV(4), Null, InfV(1)}], MaxMarginRows)}
        \cup {[status |-> "missing", rows |-> <<>>],
              [status |-> "unreadable", rows |-> TheMargin.rows]}
InvoiceLines ==
    Deal(<<SalesRow(A1, DateV(1), IntV(7), N1, P1, IntV(2)),
           SalesRow(A1, DateV(1), IntV(7), N1, P2, IntV(2)),
           SalesRow(A2, DateV(2), IntV(8), N2, P1, IntV(3))>>)
InitMargin ==
    /\ creditFile = TheCredit
    /\ salesFiles = InvoiceLines
    /\ marginFile \in MarginFiles
    /\ Untouched

SpecMargin == InitMargin /\ [][Next]_vars

\* the sales extracts of an earlier day and the ledgers a run on them left
EarlierSales == Deal(<<SalesRow(A2, DateV(1), IntV(8), N2, P2, IntV(3))>>)
PriorLedgers ==
    {Table(ToSql(r.sales_detailed)) :
        r \in load_clean_and_merge_data(TheCredit, EarlierSales, TheMargin)}

FileStatus == {"ok", "missing", "unreadable"}

\* a file in a given condition: a missing file has no content
InCondition(file, status) ==
    IF status = "missing" THEN [file EXCEPT !.status = status, !.rows = <<>>]
    ELSE [file EXCEPT !.status = status]

\* every extract present, missing or unreadable, over a fresh installation or
\* a ledger an earlier run persisted
InitFiles ==
    /\ \E st \in FileStatus : creditFile = InCondition(TheCredit, st)
    /\ \E st \in [1..NumSalesFiles -> FileStatus] :
          salesFiles = [k \in 1..NumSalesFiles |-> InCondition(TheSales[k], st[k])]
    /\ \E st \in FileStatus : marginFile = InCondition(TheMargin, st)
    /\ db \in {NoTable} \cup PriorLedgers
    /\ NotRun

SpecFiles == InitFiles /\ [][Next]_vars

\* single field values of every kind
FieldValues ==
    {Null, InfV(1), InfV(-1), DateV(1), DateV(2)}
        \cup {IntV(i) : i \in -3..3}
        \cup {FltV(h) : h \in -7..7}
        \cup {StrV(t) : t \in {Chars7, CharsAbc, <<>>, <<" ", "7", " ">>,
                               <<"7", ".", "5">>, <<"-", "2", ".", "5">>,
                               <<"i", "n", "f">>, <<"n", "a", "n">>,
                               DateToStr(2), <<" ", "x", " ">>}}

InitNormalizer ==
    /\ field \in FieldValues
    /\ creditFile = TheCredit
    /\ salesFiles = [k \in 1..NumSalesFiles |-> [status |-> "ok", rows |-> <<>>]]
    /\ marginFile = TheMargin
    /\ db = NoTable
    /\ run = NoRun
    /\ ret = "notrun"
    /\ response = "none"
    /\ scores = NoScores
    /\ view = NoView
    /\ nruns = 0
    /\ cleaned = [fn |-> "none", out |-> Null]

NextNormalizer == CleanAndTrimString \/ CleanAndRoundInteger \/ ParseDate

SpecNormalizer == InitNormalizer /\ [][NextNormalizer]_vars

\* populations of one scored column: every series of 1..MaxPopulation values
\* over ScoreValues, for either direction of the labels
ScoreValues == {0, 1, 2, 3, 7}
Populations ==
    {[kind |-> "population", series |-> xs, reverse |-> b] :
        xs \in SeqsUpTo(ScoreValues, MaxPopulation) \ {<<>>}, b \in BOOLEAN}

\* no file, ledger or run is involved
NoLedgerWork ==
    /\ creditFile = TheCredit
    /\ salesFiles = [k \in 1..NumSalesFiles |-> [status |-> "ok", rows |-> <<>>]]
    /\ marginFile = TheMargin
    /\ db = NoTable
    /\ run = NoRun
    /\ ret = "notrun"
    /\ response = "none"
    /\ scores = NoScores
    /\ view = NoView
    /\ nruns = 0
    /\ cleaned = [fn |-> "none", out |-> Null]

InitCreateScore == field \in Populations /\ NoLedgerWork

NextCreateScore == CreateScore

SpecCreateScore == InitCreateScore /\ [][NextCreateScore]_vars

\* arguments of the row helpers, on both sides of every threshold
DsoValues == {Frac(n, 10) : n \in {0, 140, 141, 210, 211, 350, 351, 600, 601, 9990}}
CreditRows ==
    {[kind |-> "credit_row", balance |-> b, dso |-> d] :
        b \in {-5, 0, 1, 500}, d \in DsoValues}
ProfitRows ==
    {[kind |-> "profit_row", monetary_value |-> mv, total_profit |-> tp] :
        mv \in {-100, 0, 3, 100, 200},
        tp \in {-5, 0, 2, 3, 4, 5, 6, 7, 8, 9, 10, 11, 15, 16, 20, 30}}
SegmentRows ==
    {[kind |-> "segment_row", C_Score |-> c, P_Score |-> p, balance |-> b,
      RFM_Score |-> rfm, Total_Score |-> t] :
        c \in 1..5, p \in 1..5,
        b \in {0, 20000, 20001, 50000, 50001, 60000},
        rfm \in {3, 9, 10, 15},
        t \in {20, 39, 40, 54, 55, 69, 70, 84, 85, 100}}
FlagRows ==
    {[kind |-> "flag_row", C_Score |-> c, P_Score |-> p, R_Score |-> r,
      balance |-> b] :
        c \in 1..5, p \in 1..5, r \in 1..5, b \in {-5, 0, 1, 500}}
Segments ==
    {"High Risk", "Credit Risk", "Review Pricing", "Champions", "Loyal",
     "Potential", "At Risk", "Dormant"}
RiskFlags ==
    {<<"OK">>} \cup
    {SelectSeq(<<"CREDIT", "PROFIT", "INACTIVE">>, LAMBDA x : x \in S) :
        S \in (SUBSET {"CREDIT", "PROFIT", "INACTIVE"}) \ {{}}}
PriorityRows ==
    {[kind |-> "priority_row", Segment |-> sg, Risk_Flag |-> rf] :
        sg \in Segments, rf \in RiskFlags}
CustomerRows ==
    {[kind |-> "customer_row", r |-> r, f |-> f, m |-> m,
      row |-> [customer_name |-> N1, customer_code |-> Chars7, recency |-> 0,
               frequency |-> 1, monetary_value |-> mv, total_profit |-> tp,
               balance |-> b, days_active |-> da]] :
        r \in {1, 3, 5}, f \in {1, 3, 5}, m \in {1, 3, 5},
        mv \in {Null, IntV(-100), IntV(0), IntV(100)},
        tp \in {-5, 2, 10},
        b \in {-5, 0, 200, 500, 600, 901, 15000, 25000, 60000},
        da \in {0, 7, 14}}

InitHelpers ==
    /\ field \in CreditRows \cup ProfitRows \cup SegmentRows \cup FlagRows
                   \cup PriorityRows \cup CustomerRows
    /\ NoLedgerWork

NextHelpers ==
    \/ CalculateCreditScore
    \/ CalculateProfitScore
    \/ AssignSegment
    \/ AssignRiskFlag
    \/ AssignPriority
    \/ ScoreCustomer

SpecHelpers == InitHelpers /\ [][NextHelpers]_vars

\* the extracts of a shop with customers 1..n, one invoice each: customer k
\* bought for 100 * k on day k, at a profit of 3 * k * k. The shape says what
\* else customer 1 (or 2) did:
\*   "second_date"  a second product line of invoice 1, delivered a day later
\*                  than every other line
\*   "second_name"  the same line under another spelling of the client name
\*   "no_sales"     customer 1 bought for 0
\*   "returns"      customer 1 bought for a negative amount
\*   "same_day"     customer 2 bought on the day customer 1 did
LedgerShapes == {"plain", "second_date", "second_name", "no_sales", "returns", "same_day"}
InvoiceOf(k) == StrV(<<"A">> \o NatToStr(k))
ClientOf(k) == StrV(<<"n">> \o NatToStr(k))
OtherSpelling == StrV(<<"x", "1">>)
RawBalances == <<-200, 300, -900, 0, -60000, -25000>>
ShopCredit(n) ==
    [status |-> "ok", columns |-> {"Code", "Balance"},
     rows |-> [k \in 1..n |->
                  [Code |-> IntV(k),
                   Balance |-> IntV(RawBalances[((k - 1) % Len(RawBalances)) + 1])]]]
ShopMargin(n) ==
    [status |-> "ok",
     rows |-> [k \in 1..n |-> [Invoice |-> InvoiceOf(k), Profit |-> IntV(3 * k * k)]]]
ShopSales(n, shape) ==
    [k \in 1..n |->
        SalesRow(InvoiceOf(k),
                 DateV(IF k = 2 /\ shape = "same_day" THEN 1 ELSE k),
                 IntV(k), ClientOf(k), P1,
                 IntV(IF k = 1 /\ shape = "no_sales" THEN 0
                      ELSE IF k = 1 /\ shape = "returns" THEN -100
                      ELSE 100 * k))]
    \o (IF n >= 1 /\ shape = "second_date"
        THEN <<SalesRow(InvoiceOf(1), DateV(n + 1), IntV(1), ClientOf(1), P2, IntV(50))>>
        ELSE IF n >= 1 /\ shape = "second_name"
        THEN <<SalesRow(InvoiceOf(1), DateV(n + 1), IntV(1), OtherSpelling, P2, IntV(50))>>
        ELSE <<>>)

\* a second spelling adds a score record, so that shop has one customer less
ShopSize(n, shape) == IF shape = "second_name" THEN n - 1 ELSE n

\* a fresh installation with the extracts of a shop; update_database builds
\* the ledger that get_customer_scores reads
InitScoring ==
    /\ \E n \in 1..MaxCustomers, shape \in LedgerShapes :
          /\ creditFile = ShopCredit(ShopSize(n, shape))
          /\ salesFiles = Deal(ShopSales(ShopSize(n, shape), shape))
          /\ marginFile = ShopMargin(ShopSize(n, shape))
    /\ Untouched

SpecScoring == InitScoring /\ [][Next]_vars

\* the ledgers update_database leaves for a shop
ShopLedgers(n, shape) ==
    {Table(ToSql(r.sales_detailed)) :
        r \in {q \in load_clean_and_merge_data(ShopCredit(n), Deal(ShopSales(n, shape)),
                                               ShopMargin(n)) : q.out = "ok"}}

\* the shops whose ledgers are read: too small for the quintile path, and of
\* the size it scores, with plain lines, same-day lines and a customer
\* without sales
ReadShops ==
    {[n |-> n, shape |-> "plain"] : n \in 1..Quintiles}
        \cup {[n |-> Quintiles, shape |-> "same_day"], [n |-> Quintiles, shape |-> "no_sales"]}

\* the read path over every condition of the ledger: no directory, no
\* database, no table, a table the query fails on, an empty table, the
\* ledgers of shops too small for the quintile path and of shops it scores
InitReadPath ==
    /\ creditFile = TheCredit
    /\ salesFiles = TheSales
    /\ marginFile = TheMargin
    /\ db \in {NoDirectory, NoDatabase, NoTable, NoColumn, Table(<<>>)}
              \cup UNION {ShopLedgers(shop.n, shop.shape) : shop \in ReadShops}
    /\ NotRun

NextReadPath ==
    \/ GetCustomerScores
    \/ GetSegmentSummary
    \/ GetRiskCustomers
    \/ GetTopCustomers
    \/ GetCreditSummary

SpecReadPath == InitReadPath /\ [][NextReadPath]_vars

\* ---------------------------------------------------------------------------
\* update_database step by step: what a reader can find while it runs
\* ---------------------------------------------------------------------------
\* to_sql(if_exists='replace') on a sqlite3 connection drops the table and
\* creates it again, each statement committed when it ends, and then inserts
\* every row in one transaction; run.at says which of these comes next
Saving == run.at \in {"connect", "create", "insert"}

\* lines 422-428: the load; a None or an exception ends the run at once
LoadForUpdate ==
    /\ nruns < MaxRuns
    /\ ~Saving
    /\ nruns' = nruns + 1
    /\ \E r \in load_clean_and_merge_data(creditFile, salesFiles, marginFile) :
          \/ /\ r.out = "ok"
             /\ run' = [r EXCEPT !.at = "connect"]
             /\ ret' = "notrun"
             /\ response' = "none"
          \/ /\ r.out # "ok"
             /\ run' = r
             /\ ret' = (IF r.out = "none" THEN "False" ELSE "raised")
             /\ response' = RouteResponse(ret')
    /\ UNCHANGED <<creditFile, salesFiles, marginFile, db, scores, field, cleaned, view>>

\* lines 430-431: sqlite3.connect and the DROP TABLE of the replace; the
\* connect creates sales.db when the directory is there and fails when not
DropTable ==
    /\ run.at = "connect"
    /\ \/ /\ db.missing # "directory"
          /\ db' = NoTable
          /\ run' = [run EXCEPT !.at = "create"]
          /\ UNCHANGED <<ret, response>>
       \/ /\ db' = db
          /\ run' = [run EXCEPT !.at = "done"]
          /\ ret' = "False"
          /\ response' = RouteResponse(ret')
    /\ UNCHANGED <<creditFile, salesFiles, marginFile, scores, nruns, field, cleaned, view>>

\* line 431: the CREATE TABLE of the replace
CreateTable ==
    /\ run.at = "create"
    /\ db' = Table(<<>>)
    /\ run' = [run EXCEPT !.at = "insert"]
    /\ UNCHANGED <<creditFile, salesFiles, marginFile, ret, response, scores,
                   nruns, field, cleaned, view>>

\* an insert that commits after every row
InsertRowsOneByOne ==
    /\ run.at = "insert"
    /\ db' = Table(ToSql(Prefix(run.sales_detailed, Len(db.rows) + 1)))
    /\ IF Len(db'.rows) = Len(run.sales_detailed)
       THEN /\ run' = [run EXCEPT !.at = "done"]
            /\ ret' = "True"
            /\ response' = RouteResponse(ret')
       ELSE UNCHANGED <<run, ret, response>>
    /\ UNCHANGED <<creditFile, salesFiles, marginFile, scores, nruns, field, cleaned, view>>

\* lines 431-441: the INSERT of every row and its commit, or its failure and
\* rollback, and the return
InsertRows ==
    /\ run.at = "insert"
    /\ \/ db' = Table(ToSql(run.sales_detailed)) /\ ret' = "True"
       \/ db' = db /\ ret' = "False"
    /\ run' = [run EXCEPT !.at = "done"]
    /\ response' = RouteResponse(ret')
    /\ UNCHANGED <<creditFile, salesFiles, marginFile, scores, nruns, field, cleaned, view>>

\* the extracts of an earlier day and of a shop, and the ledgers a rebuild
\* can start from: no directory, no database, no table, the ledger a run on
\* such extracts left
StartExtracts ==
    {[credit |-> TheCredit, sales |-> EarlierSales, margin |-> TheMargin],
     [credit |-> ShopCredit(Quintiles),
      sales |-> Deal(ShopSales(Quintiles, "no_sales")),
      margin |-> ShopMargin(Quintiles)]}
RebuildStarts ==
    {NoDirectory, NoDatabase, NoTable}
        \cup UNION {{Table(ToSql(r.sales_detailed)) :
                        r \in {q \in load_clean_and_merge_data(x.credit, x.sales, x.margin) :
                                  q.out = "ok"}} : x \in StartExtracts}

InitRebuild ==
    /\ \E shop \in ReadShops :
          /\ creditFile = ShopCredit(shop.n)
          /\ salesFiles = Deal(ShopSales(shop.n, shop.shape))
          /\ marginFile = ShopMargin(shop.n)
    /\ db \in RebuildStarts
    /\ NotRun

NextRebuild ==
    \/ LoadForUpdate
    \/ DropTable
    \/ CreateTable
    \/ InsertRows
    \/ GetCustomerScores

SpecRebuild == InitRebuild /\ [][NextRebuild]_vars

(***************************************************************************)
(* Properties: identities, the credit roster and the customer summary      *)
(***************************************************************************)
\* the sales rows as the files hold them, in the order STEP 2 concatenates them
SourceSales == Flatten([k \in 1..NumSalesFiles |-> salesFiles[k].rows])

\* the logical customer code a source cell denotes: 7 for the integer 7, the
\* float 7.0 and the numeral "7"; other cells denote none
HasLogicalCode(c) ==
    \/ c.kind = "int"
    \/ c.kind = "float" /\ c.n % 2 = 0
    \/ c.kind = "str" /\ ~IsRaise(ParseInt(c.s))
LogicalCode(c) ==
    CASE c.kind = "int" -> c.n
      [] c.kind = "float" -> c.n \div 2
      [] OTHER -> ParseInt(c.s).n

\* the last load got past the standardization of the customer codes
Standardized == run.at \in {"guard", "merge", "done"}

\* C1: cross-source identity agreement. Whenever a credit row and a sales row
\* hold the same logical customer code in their source files, whatever the
\* representation on either side, the identity string the credit-side
\* standardization gives the credit row equals the one the sales-side
\* standardization gives the sales row.
C1_IdentityAgreement ==
    Standardized =>
        \A c \in 1..Len(run.credit_df), l \in 1..Len(run.sales_std) :
            LET cc == creditFile.rows[run.credit_df[c].idx].Code
                sc == SourceSales[run.sales_std[l].idx].Cust
            IN  (HasLogicalCode(cc) /\ HasLogicalCode(sc)
                    /\ LogicalCode(cc) = LogicalCode(sc))
                  => run.credit_df[c].customer_code = run.sales_std[l].customer_code

\* C2: credit cardinality. After the left join of the aggregated sales onto
\* the credit roster the customer summary has exactly one row per roster row,
\* in roster order and with the roster's balance, however many sales lines a
\* customer has, none included.
C2_CreditCardinality ==
    run.at \in {"merge", "done"} =>
        /\ Len(run.final_df) = Len(run.credit_df)
        /\ \A i \in 1..Len(run.credit_df) :
              i <= Len(run.final_df) =>
                /\ run.final_df[i].idx = run.credit_df[i].idx
                /\ run.final_df[i].customer_code = run.credit_df[i].customer_code
                /\ run.final_df[i].balance = run.credit_df[i].balance

\* a finished load with a roster of two customers, one without any sales line
\* and one with two
C2_TwoCustomersOneWithoutSales ==
    /\ run.at = "done"
    /\ Len(run.credit_df) = 2
    /\ \E i \in 1..Len(run.final_df) :
          /\ run.final_df[i].invoice_count = IntV(0)
          /\ \A l \in 1..Len(run.sales_df) :
                run.sales_df[l].customer_code # run.final_df[i].customer_code
    /\ \E l, m \in 1..Len(run.sales_df) :
          l # m /\ run.sales_df[l].customer_code = run.sales_df[m].customer_code

\* C3: credit roster uniqueness. After the credit load and the identity
\* standardization no two roster rows carry the same identity string, and of
\* the source rows holding one logical customer code the last one survives.
C3_CreditRosterUnique ==
    Standardized =>
        /\ \A i, j \in 1..Len(run.credit_df) :
              i # j => run.credit_df[i].customer_code # run.credit_df[j].customer_code
        /\ \A i \in 1..Len(run.credit_df), k \in 1..Len(creditFile.rows) :
              LET kept == creditFile.rows[run.credit_df[i].idx].Code
                  other == creditFile.rows[k].Code
              IN  (HasLogicalCode(kept) /\ HasLogicalCode(other)
                      /\ LogicalCode(kept) = LogicalCode(other))
                    => k <= run.credit_df[i].idx

\* C4: balance sign. For every credit row whose source balance is a number b,
\* the balance of the customer in the summary is the integer nearest to -b
\* (exactly -b for an integer b), and every ledger line of a roster customer
\* carries a balance of the roster (0 where the roster has none).
C4_BalanceSign ==
    run.at = "done" =>
        /\ \A i \in 1..Len(run.final_df) :
              LET b == creditFile.rows[run.final_df[i].idx].Balance
                  balance == run.final_df[i].balance
              IN  /\ b.kind = "int" => balance = IntV(0 - b.n)
                  /\ b.kind = "float" =>
                        balance.kind = "int" /\ Abs(2 * (0 - balance.n) - b.n) <= 1
        /\ \A l \in 1..Len(run.sales_detailed) :
              run.sales_detailed[l].customer_code \in CodeSet(run.final_df) =>
                 \E i \in 1..Len(run.final_df) :
                    /\ run.final_df[i].customer_code = run.sales_detailed[l].customer_code
                    /\ run.sales_detailed[l].balance = FillZero(run.final_df[i].balance)

\* a raw balance of -5 reached the summary and a ledger line as +5
C4_NegativeBecamePositive ==
    /\ run.at = "done"
    /\ \E i \in 1..Len(run.final_df), l \in 1..Len(run.sales_detailed) :
          /\ creditFile.rows[run.final_df[i].idx].Balance = IntV(-5)
          /\ run.final_df[i].balance = IntV(5)
          /\ run.sales_detailed[l].customer_code = run.final_df[i].customer_code
          /\ run.sales_detailed[l].balance = IntV(5)

(***************************************************************************)
(* Properties: the sales lines, the guard, the files and the normalisers   *)
(***************************************************************************)
\* C5: invoice-level profit. For every scored customer, total_profit is the
\* sum, over the distinct invoice numbers on the customer's dated ledger
\* lines, of the invoice's one profit value, whatever the number of lines per
\* invoice and the delivery dates and customer names they carry.
C5_InvoiceLevelProfit ==
    \A rec \in scores.rows :
        LET ledger == scores.ledger.rows
            lines == {i \in DatedLines(ledger) :
                         ledger[i].customer_code = rec.customer_code}
            invoices == {ledger[i].invoice_number : i \in lines}
            ProfitOf(inv) ==
                ledger[CHOOSE i \in lines : ledger[i].invoice_number = inv].profit.n
        IN  rec.total_profit = SumOver([inv \in invoices |-> ProfitOf(inv)], invoices)

\* C6: sales deduplication. After STEP 4 the sales lines hold at most one row
\* per (invoice_number, product_name), every pair of the source is still
\* there, and the surviving row of a pair carries the latest delivery date
\* among the source rows of the pair.
C6_SalesDedupTieBreak ==
    run.at \in {"merge", "done"} =>
        /\ \A i, j \in 1..Len(run.sales_df) :
              i # j => ~SameInvoiceLine(run.sales_df[i], run.sales_df[j])
        /\ \A l \in 1..Len(run.sales_std) :
              \E i \in 1..Len(run.sales_df) :
                 /\ SameInvoiceLine(run.sales_df[i], run.sales_std[l])
                 /\ run.sales_std[l].delivery_date.kind = "date" =>
                       /\ run.sales_df[i].delivery_date.kind = "date"
                       /\ run.sales_df[i].delivery_date.n >= run.sales_std[l].delivery_date.n

\* a finished load whose source held one pair twice, the older row after the
\* newer one, and whose deduplicated lines hold it once
C6_PairWithTwoDates ==
    /\ run.at = "done"
    /\ Len(run.sales_df) = 1
    /\ \E l, m \in 1..Len(run.sales_std) :
          /\ l < m
          /\ SameInvoiceLine(run.sales_std[l], run.sales_std[m])
          /\ run.sales_std[l].delivery_date.kind = "date"
          /\ run.sales_std[m].delivery_date.kind = "date"
          /\ run.sales_std[l].delivery_date.n > run.sales_std[m].delivery_date.n

\* C7: zero-intersection guard. A call of update_database whose load finds,
\* after standardization, no identity common to the credit roster and the
\* sales lines gets no output from the load, returns False and leaves the
\* sales_data table as it was; the table changes only in a call whose load
\* found a common identity.
C7_ZeroIntersectionGuard ==
    [][nruns' = nruns + 1 =>
          /\ (/\ run'.at \in {"guard", "merge", "done"}
              /\ CodeSet(run'.credit_df) \cap CodeSet(run'.sales_std) = {})
                => (run'.out = "none" /\ ret' = "False" /\ db' = db)
          /\ db' # db =>
                /\ run'.at = "done"
                /\ CodeSet(run'.credit_df) \cap CodeSet(run'.sales_std) # {}]_vars

\* a call stopped by the guard with customers on both sides
C7_StoppedByGuard ==
    /\ run.at = "guard"
    /\ run.credit_df # <<>>
    /\ run.sales_std # <<>>
    /\ ret = "False"
    /\ ~db.exists

CreditOrSalesFileBad ==
    \/ creditFile.status # "ok"
    \/ \E k \in 1..NumSalesFiles : salesFiles[k].status # "ok"

\* C8: a missing or unreadable source file is fatal. A call of
\* update_database with the credit extract, any sales file or the margin
\* extract missing or unreadable aborts: the load gives no output, the call
\* returns False and the sales_data table is left exactly as it was.
C8_AnyBadFileAborts ==
    [][(nruns' = nruns + 1 /\ (CreditOrSalesFileBad \/ marginFile.status # "ok"))
          => (run'.out = "none" /\ ret' = "False" /\ db' = db)]_vars

\* C8 as the code has it: a missing or unreadable credit extract or sales
\* file aborts the call with the table left as it was; a missing or unreadable
\* margin extract does not: the load goes on with no margin row, every ledger
\* line gets profit 0, and the call writes these lines when it returns True.
C8_BadCreditOrSalesFileAborts ==
    [][nruns' = nruns + 1 =>
          /\ CreditOrSalesFileBad =>
                (run'.out = "none" /\ ret' = "False" /\ db' = db)
          /\ (~CreditOrSalesFileBad /\ marginFile.status # "ok") =>
                /\ run'.at = "done"
                /\ run'.margin_df = <<>>
                /\ run'.sales_detailed # <<>>
                /\ \A l \in 1..Len(run'.sales_detailed) :
                      run'.sales_detailed[l].profit = IntV(0)
                /\ ret' = "True" => db' = Table(ToSql(run'.sales_detailed))]_vars

\* a call made over a persisted ledger with a sales file missing: it returned
\* False and the ledger is still the earlier one
C8_LedgerKeptWhenSalesFileMissing ==
    /\ nruns = 1
    /\ creditFile.status = "ok"
    /\ \E k \in 1..NumSalesFiles : salesFiles[k].status = "missing"
    /\ run.at = "sales"
    /\ ret = "False"
    /\ db \in PriorLedgers

\* C9: explicit failure signal. Every call of update_database ends by
\* returning True or False; no exception leaves it.
C9_NoExceptionEscapes == ret \in {"notrun", "True", "False"}

\* C10: normaliser totality. No normaliser raises on any field value; a
\* null field gives the missing marker; clean_and_round_integer gives the
\* missing marker for a value that is no number and otherwise the integer
\* nearest to the number.
C10_NormalizerTotal ==
    cleaned.fn # "none" =>
        /\ cleaned.out.kind # "raise"
        /\ IsNa(field) => cleaned.out = Null
        /\ cleaned.fn = "clean_and_round_integer" =>
              /\ field.kind = "int" => cleaned.out = field
              /\ field.kind = "float" =>
                    (cleaned.out.kind = "int" /\ Abs(2 * cleaned.out.n - field.n) <= 1)
              /\ (field.kind = "date" \/ (field.kind = "str" /\ IsRaise(ParseFloat(field.s))))
                    => cleaned.out = Null

(***************************************************************************)
(* Properties: scoring                                                     *)
(***************************************************************************)
\* C11: scoring a degenerate population. For every non-empty population,
\* populations of 1 to 4 customers and populations with fewer than 5 distinct
\* values included, create_score does not raise and every score it gives
\* is an integer in 1..5, one per customer.
C11_CreateScoreTotal ==
    cleaned.fn = "create_score" =>
        /\ ~IsRaise(cleaned.out)
        /\ Len(cleaned.out.s) = Len(field.series)
        /\ \A i \in 1..Len(cleaned.out.s) : cleaned.out.s[i] \in 1..5

\* C12: segment priority, first match wins. assign_segment gives High Risk
\* when C_Score = 1 and balance > 50000; otherwise Credit Risk when
\* C_Score <= 2 and balance > 20000; otherwise Review Pricing when
\* P_Score <= 2 and RFM_Score >= 10; otherwise the band of Total_Score
\* (>= 85 Champions, >= 70 Loyal, >= 55 Potential, >= 40 At Risk, else
\* Dormant).
C12_SegmentPriority ==
    cleaned.fn = "assign_segment" =>
        LET highRisk == field.C_Score = 1 /\ field.balance > 50000
            creditRisk == field.C_Score <= 2 /\ field.balance > 20000
            pricing == field.P_Score <= 2 /\ field.RFM_Score >= 10
            t == field.Total_Score
        IN  /\ highRisk => cleaned.out = "High Risk"
            /\ ~highRisk /\ creditRisk => cleaned.out = "Credit Risk"
            /\ ~highRisk /\ ~creditRisk /\ pricing => cleaned.out = "Review Pricing"
            /\ ~highRisk /\ ~creditRisk /\ ~pricing =>
                  /\ t >= 85 => cleaned.out = "Champions"
                  /\ t \in 70..84 => cleaned.out = "Loyal"
                  /\ t \in 55..69 => cleaned.out = "Potential"
                  /\ t \in 40..54 => cleaned.out = "At Risk"
                  /\ t < 40 => cleaned.out = "Dormant"

\* a customer with C_Score 1, balance 60000 and a Total_Score of the
\* Champions band has been given a segment
C12_HighRiskWithChampionTotal ==
    /\ cleaned.fn = "assign_segment"
    /\ field.C_Score = 1
    /\ field.balance = 60000
    /\ field.Total_Score >= 85
    /\ cleaned.out = "High Risk"

\* C15: DSO guard and clamp. For every customer, with weekly_sales =
\* monetary_value / max(days_active, 7) * 7, DSO is balance / weekly_sales * 7
\* clamped to [0, 999]; DSO is 0 whenever balance <= 0 or weekly_sales is 0;
\* the computation ends with a value for every input (no division by zero
\* stops it).
C15_DsoGuardAndClamp ==
    cleaned.fn = "score_customer" =>
        LET mv == IF field.row.monetary_value.kind = "int"
                  THEN field.row.monetary_value.n ELSE 0
            days == IF field.row.days_active < 7 THEN 7 ELSE field.row.days_active
            balance == field.row.balance
            \* balance / (mv / days * 7) * 7 = balance * days / mv
            owed == Frac(balance * days * Sign(mv), Abs(mv))
            dso == cleaned.out.dso
        IN  /\ FracEq(cleaned.out.weekly_sales, Frac(7 * mv, days))
            /\ dso.den > 0
            /\ FracLeq(IntF(0), dso) /\ FracLeq(dso, IntF(999))
            /\ (balance <= 0 \/ mv = 0) => FracEq(dso, IntF(0))
            /\ (balance > 0 /\ mv # 0) =>
                  /\ FracLess(owed, IntF(0)) => FracEq(dso, IntF(0))
                  /\ FracLess(IntF(999), owed) => FracEq(dso, IntF(999))
                  /\ (FracLeq(IntF(0), owed) /\ FracLeq(owed, IntF(999))) =>
                        FracEq(dso, owed)

\* a customer with monetary_value 0 and balance 500 has been given DSO 0
C15_NoSalesButBalance ==
    /\ cleaned.fn = "score_customer"
    /\ field.row.monetary_value = IntV(0)
    /\ field.row.balance = 500
    /\ FracEq(cleaned.out.dso, IntF(0))

\* C17: credit sub-score. calculate_credit_score gives 5 whenever
\* balance <= 0, whatever the DSO; otherwise 5 for DSO <= 14, 4 for
\* DSO <= 21, 3 for DSO <= 35, 2 for DSO <= 60 and 1 above 60.
C17_CreditSubScore ==
    cleaned.fn = "calculate_credit_score" =>
        LET \* DSO <= k  <=>  num <= k * den
            UpTo(k) == field.dso.num <= k * field.dso.den
        IN  /\ field.balance <= 0 => cleaned.out = 5
            /\ field.balance > 0 =>
                  /\ UpTo(14) => cleaned.out = 5
                  /\ ~UpTo(14) /\ UpTo(21) => cleaned.out = 4
                  /\ ~UpTo(21) /\ UpTo(35) => cleaned.out = 3
                  /\ ~UpTo(35) /\ UpTo(60) => cleaned.out = 2
                  /\ ~UpTo(60) => cleaned.out = 1

\* a customer who owes nothing and has a DSO above 60 has been scored 5
C17_NoDebtHighDso ==
    /\ cleaned.fn = "calculate_credit_score"
    /\ field.balance <= 0
    /\ FracLess(IntF(60), field.dso)
    /\ cleaned.out = 5

\* C18: profit sub-score. With the margin percentage total_profit /
\* monetary_value * 100 (0 when monetary_value is not positive), the profit
\* score is 5 for a margin >= 10, 4 for >= 8, 3 for >= 5, 2 for >= 3 and 1
\* otherwise, every negative margin included.
C18_ProfitSubScore ==
    cleaned.fn = "calculate_profit_score" =>
        LET mv == field.monetary_value
            \* margin >= k  <=>  100 * total_profit >= k * monetary_value
            AtLeast(k) == IF mv > 0 THEN 100 * field.total_profit >= k * mv
                          ELSE 0 >= k
        IN  cleaned.out = IF AtLeast(10) THEN 5
                          ELSE IF AtLeast(8) THEN 4
                          ELSE IF AtLeast(5) THEN 3
                          ELSE IF AtLeast(3) THEN 2
                          ELSE 1

\* a customer who sells at a loss has been scored 1
C18_NegativeMargin ==
    /\ cleaned.fn = "calculate_profit_score"
    /\ field.monetary_value > 0
    /\ field.total_profit < 0
    /\ cleaned.out = 1

\* C19: composite score. For every scored customer Total_Score =
\* 4 * R_Score + 3 * F_Score + 6 * M_Score + 4 * C_Score + 3 * P_Score and
\* RFM_Score = R_Score + F_Score + M_Score, so Total_Score is in 20..100 and
\* RFM_Score in 3..15.
C19_CompositeScore ==
    cleaned.fn = "score_customer" =>
        LET o == cleaned.out
        IN  /\ o.R_Score = field.r /\ o.F_Score = field.f /\ o.M_Score = field.m
            /\ o.C_Score \in 1..5 /\ o.P_Score \in 1..5
            /\ o.Total_Score = 4 * o.R_Score + 3 * o.F_Score + 6 * o.M_Score
                                  + 4 * o.C_Score + 3 * o.P_Score
            /\ o.RFM_Score = o.R_Score + o.F_Score + o.M_Score
            /\ o.Total_Score \in 20..100
            /\ o.RFM_Score \in 3..15

\* a customer has reached the highest Total_Score
C19_TotalOfHundred ==
    /\ cleaned.fn = "score_customer"
    /\ cleaned.out.Total_Score = 100
    /\ cleaned.out.RFM_Score = 15

\* C20: risk flags are independent and non-exclusive. The flags of a
\* customer contain CREDIT exactly when C_Score <= 2 and balance > 0, PROFIT
\* exactly when P_Score <= 2, INACTIVE exactly when R_Score <= 2; the result
\* is "OK" exactly when none of the three conditions holds.
C20_RiskFlags ==
    cleaned.fn = "assign_risk_flag" =>
        LET credit == field.C_Score <= 2 /\ field.balance > 0
            profit == field.P_Score <= 2
            inactive == field.R_Score <= 2
        IN  /\ HasFlag(cleaned.out, "CREDIT") <=> credit
            /\ HasFlag(cleaned.out, "PROFIT") <=> profit
            /\ HasFlag(cleaned.out, "INACTIVE") <=> inactive
            /\ cleaned.out = <<"OK">> <=> ~(credit \/ profit \/ inactive)

\* a customer has been given the three flags together
C20_ThreeFlagsTogether ==
    /\ cleaned.fn = "assign_risk_flag"
    /\ cleaned.out = <<"CREDIT", "PROFIT", "INACTIVE">>

\* C13: score-record cardinality. A completed get_customer_scores returns
\* exactly one score record for each customer identity whose summed
\* transaction amount in the ledger is positive and no record for a customer
\* whose summed amount is zero or negative, also when the lines of a customer
\* carry different customer names.
C13_OneRecordPerCustomer ==
    scores.out = "frame" =>
        LET ledger == scores.ledger.rows
            ids == {ledger[i].customer_code : i \in 1..Len(ledger)}
            Lines(c) == {i \in 1..Len(ledger) :
                            ledger[i].customer_code = c /\ ledger[i].amount.kind = "int"}
            Amount(c) == SumOver([i \in Lines(c) |-> ledger[i].amount.n], Lines(c))
        IN  /\ \A rec \in scores.rows : rec.customer_code \in ids
            /\ \A c \in ids :
                  Cardinality({rec \in scores.rows : rec.customer_code = c})
                      = IF Amount(c) > 0 THEN 1 ELSE 0

\* C14: read path on a missing ledger. When the data directory, the database
\* file or the sales_data table does not exist, or the query fails,
\* get_customer_scores returns an empty result and does not raise, and
\* get_segment_summary, get_risk_customers, get_top_customers and
\* get_credit_summary return an empty result too.
C14_MissingLedgerReadsEmpty ==
    /\ (scores.out # "notrun" /\ ~scores.ledger.exists) =>
          (scores.out = "empty" /\ scores.rows = {} /\ scores.frame = <<>>)
    /\ (view.fn # "none" /\ ~db.exists) =>
          (view.out = "empty" /\ view.rows = <<>>)

\* the scores and the credit summary have been asked for with no data
\* directory, and both came back empty
C14_NoDirectoryReadTwice ==
    /\ db = NoDirectory
    /\ scores.out = "empty"
    /\ view.fn = "get_credit_summary"
    /\ view.out = "empty"

(***************************************************************************)
(* Properties: the balance on the ledger lines                             *)
(***************************************************************************)
\* C16: the balance belongs to the credit ledger. After a completed
\* reconciliation every ledger line of a customer of the roster carries the
\* balance of a surviving roster row of that customer, worked out from the
\* credit file alone: the cleaned source balance with its sign flipped, 0
\* where the source has none. The line's amount and profit play no part.
C16_BalanceFromCreditOnly ==
    run.at = "done" =>
        \A l \in 1..Len(run.sales_detailed) :
            run.sales_detailed[l].customer_code \in CodeSet(run.credit_df) =>
                \E i \in 1..Len(run.credit_df) :
                    /\ run.credit_df[i].customer_code = run.sales_detailed[l].customer_code
                    /\ run.sales_detailed[l].balance =
                          FillZero(InvertBalance(clean_and_round_integer(
                              creditFile.rows[run.credit_df[i].idx].Balance)))

\* two roster customers with different balances, each on a ledger line whose
\* amount and profit differ from the balance it carries
C16_TwoCustomersTwoBalances ==
    /\ run.at = "done"
    /\ \E l, m \in 1..Len(run.sales_detailed) :
          /\ run.sales_detailed[l].customer_code \in CodeSet(run.credit_df)
          /\ run.sales_detailed[m].customer_code \in CodeSet(run.credit_df)
          /\ run.sales_detailed[l].balance = IntV(5)
          /\ run.sales_detailed[m].balance = IntV(-3)
          /\ run.sales_detailed[l].amount # run.sales_detailed[l].balance
          /\ run.sales_detailed[l].profit # run.sales_detailed[l].balance
          /\ run.sales_detailed[m].amount # run.sales_detailed[m].balance

(***************************************************************************)
(* Properties: priority, quintiles and the ledger lines                    *)
(***************************************************************************)
\* C21: Priority is a function of segment and flags only, always in 1..5:
\* 1 when the segment is High Risk or the flags contain CREDIT; otherwise 2
\* when the segment is Credit Risk or Review Pricing; otherwise 3 when the
\* segment is Potential or At Risk or the flags contain INACTIVE; otherwise 4
\* when the segment is Champions or Loyal; otherwise 5.
C21_PriorityLadder ==
    cleaned.fn = "assign_priority" =>
        LET first == field.Segment = "High Risk" \/ HasFlag(field.Risk_Flag, "CREDIT")
            second == field.Segment \in {"Credit Risk", "Review Pricing"}
            third == \/ field.Segment \in {"Potential", "At Risk"}
                     \/ HasFlag(field.Risk_Flag, "INACTIVE")
            fourth == field.Segment \in {"Champions", "Loyal"}
        IN  /\ cleaned.out \in 1..5
            /\ first => cleaned.out = 1
            /\ ~first /\ second => cleaned.out = 2
            /\ ~first /\ ~second /\ third => cleaned.out = 3
            /\ ~first /\ ~second /\ ~third /\ fourth => cleaned.out = 4
            /\ ~first /\ ~second /\ ~third /\ ~fourth => cleaned.out = 5

\* a Champions customer with the CREDIT flag got Priority 1
C21_ChampionWithCreditFlag ==
    /\ cleaned.fn = "assign_priority"
    /\ field.Segment = "Champions"
    /\ HasFlag(field.Risk_Flag, "CREDIT")
    /\ cleaned.out = 1

\* C22: quintile direction. Whenever create_score hands out scores for a
\* population, on the quintile path and on the paths that cut the ranks, a
\* customer with strictly fewer recency days (reverse labels) never has a
\* lower score than one with more days, and a customer with a strictly higher
\* frequency or monetary value never has a lower score than one with a lower
\* value.
C22_QuintileDirection ==
    (cleaned.fn = "create_score" /\ ~IsRaise(cleaned.out)) =>
        \A i, j \in 1..Len(field.series) :
            field.series[i] < field.series[j] =>
                IF field.reverse
                THEN cleaned.out.s[i] >= cleaned.out.s[j]
                ELSE cleaned.out.s[i] <= cleaned.out.s[j]

\* recency scores of six customers with five distinct recencies, for which
\* qcut fails on its duplicate edges and the ranks are cut: a customer with
\* fewer days scored strictly higher
C22_RecencyOnRankFallback ==
    /\ cleaned.fn = "create_score"
    /\ field.reverse
    /\ Len(field.series) = 6
    /\ NUnique(field.series) = Quintiles
    /\ IsRaise(QCut(field.series))
    /\ ~IsRaise(cleaned.out)
    /\ \E i, j \in 1..6 : /\ field.series[i] < field.series[j]
                          /\ cleaned.out.s[i] > cleaned.out.s[j]

\* C29: tie consistency of the quintile scores. Whenever create_score hands
\* out scores for a population, two customers with equal values (recency,
\* frequency or monetary value) have the same score, whatever the order of
\* the rows.
C29_TieConsistency ==
    (cleaned.fn = "create_score" /\ ~IsRaise(cleaned.out)) =>
        \A i, j \in 1..Len(field.series) :
            field.series[i] = field.series[j] => cleaned.out.s[i] = cleaned.out.s[j]

\* C30: credit segments are top priority. Every scored customer whose
\* segment is High Risk or Credit Risk carries the CREDIT flag and has
\* Priority 1, so Priority 2 goes only to Review Pricing customers without
\* the CREDIT flag; and every customer with C_Score <= 2 has balance > 0.
C30_CreditSegmentsTopPriority ==
    cleaned.fn = "score_customer" =>
        LET o == cleaned.out
        IN  /\ o.Segment \in {"High Risk", "Credit Risk"} =>
                  HasFlag(o.Risk_Flag, "CREDIT") /\ o.Priority = 1
            /\ o.Priority = 2 =>
                  o.Segment = "Review Pricing" /\ ~HasFlag(o.Risk_Flag, "CREDIT")
            /\ o.C_Score <= 2 => o.balance > 0

\* a Credit Risk customer (C_Score 1, balance 25000) has been scored, with
\* the CREDIT flag and Priority 1
C30_CreditRiskScored ==
    /\ cleaned.fn = "score_customer"
    /\ cleaned.out.Segment = "Credit Risk"
    /\ cleaned.out.C_Score = 1
    /\ cleaned.out.balance = 25000
    /\ HasFlag(cleaned.out.Risk_Flag, "CREDIT")
    /\ cleaned.out.Priority = 1

C24_UnknownCustomerKept ==
    (/\ run.at \in {"guard", "merge", "done"}
     /\ "Balance" \in creditFile.columns
     /\ CodeSet(run.credit_df) \cap CodeSet(run.sales_std) # {}) =>
        /\ run.at = "done"
        /\ run.out = "ok"
        /\ \A l \in 1..Len(run.sales_df) :
              \E d \in 1..Len(run.sales_detailed) :
                 /\ run.sales_detailed[d].idx = run.sales_df[l].idx
                 /\ run.sales_detailed[d].customer_code = run.sales_df[l].customer_code
        /\ \A d \in 1..Len(run.sales_detailed) :
              /\ run.sales_detailed[d].balance.kind = "int"
              /\ run.sales_detailed[d].customer_code \notin CodeSet(run.credit_df) =>
                    run.sales_detailed[d].balance = IntV(0)

\* a finished load whose detail holds a line of a roster customer with the
\* balance 5 and a line of a customer the roster does not know with balance 0
C24_KnownAndUnknownLine ==
    /\ run.at = "done"
    /\ \E d, e \in 1..Len(run.sales_detailed) :
          /\ run.sales_detailed[d].customer_code \in CodeSet(run.credit_df)
          /\ run.sales_detailed[d].balance = IntV(5)
          /\ run.sales_detailed[e].customer_code \notin CodeSet(run.credit_df)
          /\ run.sales_detailed[e].balance = IntV(0)

\* C25: transaction-detail cardinality. After a completed reconciliation the
\* transaction detail has exactly one row per deduplicated sales line, in the
\* same order, and no two of its rows share an (invoice_number, product_name)
\* pair: neither the margin join nor the balance join adds or removes rows.
C25_DetailCardinality ==
    run.at = "done" =>
        /\ Len(run.sales_detailed) = Len(run.sales_df)
        /\ \A d \in 1..Len(run.sales_detailed) :
              d <= Len(run.sales_df) => run.sales_detailed[d].idx = run.sales_df[d].idx
        /\ \A d, e \in 1..Len(run.sales_detailed) :
              d # e => ~SameInvoiceLine(run.sales_detailed[d], run.sales_detailed[e])

=============================================================================
